---- MODULE Spec2Model ----
(***************************************************************************)
(* Chronos (P6XER-JS bundle + ChronosApp): the XER tokenizer, the schema   *)
(* projector, the Reader's collections and analytics, the DCMA 14-point    *)
(* assessment and the application's load / check / export state.           *)
(*                                                                         *)
(* JavaScript values are records [t, n, s]: t is the JS type tag, n the    *)
(* numeric payload (a number, or a date in days), s the string payload.    *)
(* JavaScript objects are functions from property names to values; a       *)
(* property that is not in the DOMAIN reads as undefined.                  *)
(***************************************************************************)
EXTENDS Integers, Sequences, FiniteSets, TLC

VARIABLES
    \* XERParser.parseContent: the loop variable and the locals of the loop
    line, data, currentTable, currentFields, threw, nlines,
    \* XERParser.convertTypes: arguments and return value
    record, tableSchema, converted,
    \* Reader: the object, and the number of parseContent calls made on it
    reader, nparses,
    \* Reader.getResourceCurve, Reader.getCriticalActivities: the return
    \* value of the last call
    curve, critical,
    \* Reader.getSummaryStats, Reader.getResourceUtilization: the return
    \* value of the last call
    stats, utilization,
    \* ChronosApp: the fields of the application object
    currentReader, currentProject, allActivities, allAssignments,
    resourceUtilization, integrityCheckResults,
    \* the file reads loadProject awaits, the timers performIntegrityCheck
    \* has set, the number of loadProject calls and the argument of the
    \* last one, the last export
    loading, timers, nloads, lastFile, exported,
    \* GanttChart: the hierarchy prepareGanttData has built, the ids the
    \* user has expanded, whether initializeGantt has caught an error
    ganttData, expandedItems, ganttError

parserVars == <<line, data, currentTable, currentFields, threw, nlines>>
convertVars == <<record, tableSchema, converted>>
readerVars == <<reader, nparses>>
curveVars == <<curve, critical, stats, utilization>>
appVars == <<currentReader, currentProject, allActivities, allAssignments,
             resourceUtilization, integrityCheckResults>>
taskVars == <<loading, timers, nloads, lastFile, exported>>
ganttVars == <<ganttData, expandedItems, ganttError>>
vars == <<parserVars, convertVars, readerVars, curveVars, appVars, taskVars,
         ganttVars>>

(***************************************************************************)
(* Bounds                                                                  *)
(***************************************************************************)
MaxLines == 4       \* lines of one text handed to XERParser.parseContent
MaxCells == 3       \* tab-separated cells after the marker of one line
MaxParses == 2      \* parseContent calls made on one Reader
MaxBlocks == 2      \* tables in one text handed to Reader.parseContent
MaxDay == 14        \* dates of the activities of a resource curve: 0..MaxDay
MaxPairDay == 9     \* the same, when the resource has two activities
MaxActs == 2        \* activities of a generated schedule
MaxRels == 2        \* relationships of a generated schedule
ChainLen == 7       \* activities of a schedule that is one chain
MaxLoads == 3       \* loadProject calls
MaxPending == 2     \* file reads and timers that are pending at one time
MaxAssignments == 3 \* assignments handed to getResourceUtilization
MaxTypedRels == 10  \* relationships of a schedule handed to checkRelationshipTypes
MaxConstrained == 20 \* activities of a schedule handed to checkHardConstraints

(***************************************************************************)
(* JavaScript values                                                       *)
(***************************************************************************)
Str(s) == [t |-> "string", n |-> 0, s |-> s]
Num(n) == [t |-> "number", n |-> n, s |-> ""]
NaN == [t |-> "NaN", n |-> 0, s |-> ""]
Bool(b) == [t |-> "boolean", n |-> IF b THEN 1 ELSE 0, s |-> ""]
DateV(d) == [t |-> "date", n |-> d, s |-> ""]
InvalidDate == [t |-> "invalid-date", n |-> 0, s |-> ""]
Null == [t |-> "null", n |-> 0, s |-> ""]
Undefined == [t |-> "undefined", n |-> 0, s |-> ""]

\* obj[key]
Get(obj, key) == IF key \in DOMAIN obj THEN obj[key] ELSE Undefined

\* ToBoolean(v), as used by !v, v || w, v && w and if (v)
Truthy(v) ==
    CASE v.t = "string" -> v.s # ""
      [] v.t = "number" -> v.n # 0
      [] v.t = "boolean" -> v.n = 1
      [] v.t \in {"date", "invalid-date"} -> TRUE
      [] OTHER -> FALSE

\* v || w
Or(v, w) == IF Truthy(v) THEN v ELSE w

\* The strings Number() reads as a number, with the number read.  Every
\* other non-blank string gives NaN.
NumericLiterals ==
    [s \in {"0", "1", "5", "-5", "40", "70", "200", "1000"} |->
        CASE s = "0" -> 0 [] s = "1" -> 1 [] s = "5" -> 5 [] s = "-5" -> 0 - 5
          [] s = "40" -> 40 [] s = "70" -> 70 [] s = "200" -> 200
          [] s = "1000" -> 1000]

\* Strings of blanks only: Number() reads them as 0, Date() cannot parse them
BlankStrings == {"", " "}

\* Number(value) for a string value
ToNumber(s) ==
    IF s \in BlankStrings THEN Num(0)
    ELSE IF s \in DOMAIN NumericLiterals THEN Num(NumericLiterals[s])
    ELSE NaN

\* The strings new Date() can parse, with the day they denote
DateLiterals ==
    [s \in {"2024-01-01 00:00", "2024-01-08 00:00", "2024-01-15 00:00"} |->
        CASE s = "2024-01-01 00:00" -> 0
          [] s = "2024-01-08 00:00" -> 7
          [] s = "2024-01-15 00:00" -> 14]

\* new Date(value) for a string value
NewDate(s) ==
    IF s \in DOMAIN DateLiterals THEN DateV(DateLiterals[s]) ELSE InvalidDate

\* isNaN(v) for a number, and isNaN(date.getTime()) for a date
IsNaN(v) == v.t \in {"NaN", "invalid-date"}

convertToNumber_NoNaNCheck(value) ==
    IF value.t \in {"null", "undefined"} \/ (value.t = "string" /\ value.s = "")
    THEN Num(0)
    ELSE IF value.t = "string" THEN ToNumber(value.s) ELSE value

convertToNumber(value) ==
    IF value.t \in {"null", "undefined"} \/ (value.t = "string" /\ value.s = "")
    THEN Num(0)
    ELSE LET num == IF value.t = "string" THEN ToNumber(value.s) ELSE value
         IN  IF IsNaN(num) THEN Num(0) ELSE num

convertToDate(value) ==
    IF ~Truthy(value) \/ (value.t = "string" /\ value.s = "")
    THEN Null
    ELSE LET date == IF value.t = "string" THEN NewDate(value.s) ELSE value
         IN  IF IsNaN(date) THEN Null ELSE date

(***************************************************************************)
(* XERParser.convertTypes                                                  *)
(***************************************************************************)
\* A schema maps a field name to its declared type
SCHEMAS ==
    [PROJECT |->
        [f \in {"proj_id", "proj_short_name", "proj_name", "proj_mgr",
                "status_code"} |-> "string"],
     TASK |->
        [f \in {"task_id", "proj_id", "wbs_id", "task_code", "task_name",
                "status_code", "phys_complete_pct", "target_drtn_hr_cnt",
                "total_float_hr_cnt", "driving_path_flag", "act_start_date",
                "act_end_date", "early_start_date", "early_end_date",
                "late_start_date", "late_end_date"} |->
            IF f \in {"phys_complete_pct", "target_drtn_hr_cnt",
                      "total_float_hr_cnt"} THEN "number"
            ELSE IF f \in {"act_start_date", "act_end_date",
                           "early_start_date", "early_end_date",
                           "late_start_date", "late_end_date"} THEN "date"
            ELSE "string"],
     PROJWBS |->
        [f \in {"wbs_id", "proj_id", "obs_id", "seq_num", "est_wt",
                "proj_node_flag", "sum_data_flag", "status_code", "wbs_name",
                "wbs_short_name", "parent_wbs_id"} |->
            IF f \in {"seq_num", "est_wt"} THEN "number" ELSE "string"],
     RSRC |->
        [f \in {"rsrc_id", "rsrc_name", "rsrc_type"} |-> "string"],
     TASKPRED |->
        [f \in {"task_pred_id", "task_id", "pred_task_id", "pred_type",
                "lag_hr_cnt"} |->
            IF f = "lag_hr_cnt" THEN "number" ELSE "string"],
     TASKRSRC |->
        [f \in {"taskrsrc_id", "task_id", "rsrc_id", "proj_id", "target_qty",
                "target_cost", "act_reg_qty", "act_ot_qty", "act_reg_cost",
                "act_ot_cost", "remain_qty", "remain_cost"} |->
            IF f \in {"taskrsrc_id", "task_id", "rsrc_id", "proj_id"}
            THEN "string" ELSE "number"]]

\* "no schema" argument of convertTypes
NoSchema == [f \in {} |-> "string"]

\* the switch of convertTypes, for a raw string value
convertField(type, value) ==
    CASE type = "number" -> convertToNumber(Str(value))
      [] type = "date" -> convertToDate(Str(value))
      [] type = "boolean" -> Bool(value = "Y" \/ value = "true" \/ value = "1")
      [] OTHER -> Str(value)

\* convertTypes(record, tableSchema): record maps field names to raw strings
convertTypes(rec, schema) ==
    [f \in DOMAIN rec |->
        IF f \in DOMAIN schema THEN convertField(schema[f], rec[f])
        ELSE Str(rec[f])]

(***************************************************************************)
(* XERParser.parseContent                                                  *)
(*                                                                         *)
(* A line of the text is [mark, cells]: the two characters it starts with  *)
(* and the tab-separated cells that follow the tab after them (no cell: no *)
(* tab follows the mark).  The blank line is [mark |-> "", cells |-> <<>>].*)
(***************************************************************************)
Last(s) == s[Len(s)]
Front(s) == SubSeq(s, 1, Len(s) - 1)
Min(a, b) == IF a <= b THEN a ELSE b
Max(a, b) == IF a >= b THEN a ELSE b
Range(s) == {s[i] : i \in 1..Len(s)}
SeqsUpTo(S, n) == UNION {[1..k -> S] : k \in 0..n}

TableNames == {"PROJECT", "TASK"}
FieldNames == {"proj_id", "task_id"}
CellValues == {"", "P1"}

BlankLine == [mark |-> "", cells |-> <<>>]

\* the lines a text is made of
RawLines ==
    {BlankLine, [mark |-> "%E", cells |-> <<>>],
     [mark |-> "ERMHDR", cells |-> <<"P1">>]}
    \cup {[mark |-> "%T", cells |-> <<c>>] : c \in TableNames \cup {""}}
    \cup {[mark |-> "%F", cells |-> c] : c \in SeqsUpTo(FieldNames, MaxCells)}
    \cup {[mark |-> "%R", cells |-> c] : c \in SeqsUpTo(CellValues, MaxCells)}

\* line.trim(): the tabs and blanks that end the line are removed
RECURSIVE TrimCells(_)
TrimCells(cells) ==
    IF cells = <<>> THEN <<>>
    ELSE IF Last(cells) \in BlankStrings THEN TrimCells(Front(cells))
    ELSE cells

Trim(ln) == [ln EXCEPT !.cells = TrimCells(ln.cells)]

\* line.startsWith(marker + '\t')
StartsWith(ln, marker) == ln.mark = marker /\ Len(ln.cells) >= 1

\* currentTable before the first table definition
NoTable == "<null>"

\* the locals of parseContent before the loop
ParserStart ==
    [data |-> [tb \in {} |-> <<>>], currentTable |-> NoTable,
     currentFields |-> <<>>, threw |-> FALSE]

\* the loop that fills one record from the field list and the values
BuildRecord(fields, values) ==
    LET m == Min(Len(fields), Len(values))
    IN  [f \in {fields[i] : i \in 1..m} |->
            LET i == CHOOSE j \in 1..m :
                        /\ fields[j] = f
                        /\ \A k \in (j + 1)..m : fields[k] # f
            IN  IF values[i] = "" THEN "" ELSE values[i]]

RowAccepted_FieldsOnly(st) == Len(st.currentFields) > 0

\* the condition under which a data row is stored
RowAccepted(st) == st.currentTable # NoTable /\ Len(st.currentFields) > 0

\* data[currentTable].push(record): a TypeError when data has no such table
PushRecord(st, rec) ==
    IF st.currentTable \in DOMAIN st.data
    THEN [st EXCEPT !.data[st.currentTable] = Append(@, rec)]
    ELSE [st EXCEPT !.threw = TRUE]

ParseStep_KeepsFields(st, ln) ==
    IF StartsWith(ln, "%T")
    THEN [st EXCEPT !.currentTable = ln.cells[1],
                    !.data = [tb \in DOMAIN st.data \cup {ln.cells[1]} |->
                                 IF tb = ln.cells[1] THEN <<>> ELSE st.data[tb]]]
    ELSE IF StartsWith(ln, "%F")
    THEN [st EXCEPT !.currentFields = ln.cells]
    ELSE IF StartsWith(ln, "%R")
    THEN IF RowAccepted(st)
         THEN PushRecord(st, BuildRecord(st.currentFields, ln.cells))
         ELSE st
    ELSE st

\* one iteration of the loop, for a trimmed, non-blank line
ParseStep(st, ln) ==
    IF StartsWith(ln, "%T")
    THEN [st EXCEPT !.currentTable = ln.cells[1],
                    !.data = [tb \in DOMAIN st.data \cup {ln.cells[1]} |->
                                 IF tb = ln.cells[1] THEN <<>> ELSE st.data[tb]],
                    !.currentFields = <<>>]
    ELSE IF StartsWith(ln, "%F")
    THEN [st EXCEPT !.currentFields = ln.cells]
    ELSE IF StartsWith(ln, "%R")
    THEN IF RowAccepted(st)
         THEN PushRecord(st, BuildRecord(st.currentFields, ln.cells))
         ELSE st
    ELSE st

\* the lines the loop runs over: trimmed, blank lines filtered out
Lines(text) == SelectSeq([i \in 1..Len(text) |-> Trim(text[i])],
                         LAMBDA ln : ln # BlankLine)

\* the state of the loop after the given lines; a throw ends the loop
RECURSIVE ParseLoop(_, _)
ParseLoop(st, lns) ==
    IF lns = <<>> \/ st.threw THEN st
    ELSE ParseLoop(ParseStep(st, lns[1]), Tail(lns))

\* XERParser.parseContent(content), returning the table map
ParseContent(text) == ParseLoop(ParserStart, Lines(text)).data

parserState ==
    [data |-> data, currentTable |-> currentTable,
     currentFields |-> currentFields, threw |-> threw]

\* line is the last line the loop has run for (BlankLine: none yet)
InitParser ==
    /\ line = BlankLine
    /\ data = ParserStart.data
    /\ currentTable = ParserStart.currentTable
    /\ currentFields = ParserStart.currentFields
    /\ threw = ParserStart.threw
    /\ nlines = 0

IdleParser == InitParser

\* the parser reads the next line of the text
ReadLine(raw) ==
    /\ nlines < MaxLines
    /\ ~threw
    /\ nlines' = nlines + 1
    /\ IF Trim(raw) = BlankLine
       THEN UNCHANGED <<line, data, currentTable, currentFields, threw>>
       ELSE LET st == ParseStep(parserState, Trim(raw))
            IN  /\ line' = Trim(raw)
                /\ data' = st.data
                /\ currentTable' = st.currentTable
                /\ currentFields' = st.currentFields
                /\ threw' = st.threw
    /\ UNCHANGED <<convertVars, ganttVars, readerVars, curveVars, appVars, taskVars>>

(***************************************************************************)
(* Specification of the schema projector: convertTypes applied to one      *)
(* record under one schema                                                 *)
(***************************************************************************)
RawStrings == {"", " ", "abc", "0", "5", "-5", "Y", "N", "true", "1",
               "2024-01-08 00:00"}
ConvertFields == {"f_num", "f_date", "f_bool", "f_str", "f_other"}

\* schemas with one field of each declared type
TestSchemas ==
    {NoSchema,
     [f \in {"f_num", "f_date", "f_bool", "f_str"} |->
        CASE f = "f_num" -> "number" [] f = "f_date" -> "date"
          [] f = "f_bool" -> "boolean" [] OTHER -> "string"]}

NotConverted == [returned |-> FALSE, value |-> [f \in {} |-> Undefined]]

InitConvert ==
    /\ \E fs \in SUBSET ConvertFields :
          /\ Cardinality(fs) <= 2
          /\ record \in [fs -> RawStrings]
    /\ tableSchema \in TestSchemas
    /\ converted = NotConverted

IdleConvert ==
    /\ record = [f \in {} |-> ""]
    /\ tableSchema = NoSchema
    /\ converted = NotConverted

ConvertTypes ==
    /\ converted' = [returned |-> TRUE,
                     value |-> convertTypes(record, tableSchema)]
    /\ UNCHANGED <<record, tableSchema, parserVars, readerVars, curveVars,
                   appVars, taskVars, ganttVars>>

(***************************************************************************)
(* Reader: constructor, parseContent, buildCollections                     *)
(***************************************************************************)
Collections == {"projects", "activities", "wbs", "resources", "relationships",
                "activityResources"}

\* the table each collection is built from
TableOf ==
    [c \in Collections |->
        CASE c = "projects" -> "PROJECT" [] c = "activities" -> "TASK"
          [] c = "wbs" -> "PROJWBS" [] c = "resources" -> "RSRC"
          [] c = "relationships" -> "TASKPRED"
          [] c = "activityResources" -> "TASKRSRC"]

\* the schema of a table, as a function of the table's name
SchemaOf(tb) ==
    CASE tb = "PROJECT" -> SCHEMAS.PROJECT [] tb = "TASK" -> SCHEMAS.TASK
      [] tb = "PROJWBS" -> SCHEMAS.PROJWBS [] tb = "RSRC" -> SCHEMAS.RSRC
      [] tb = "TASKPRED" -> SCHEMAS.TASKPRED
      [] tb = "TASKRSRC" -> SCHEMAS.TASKRSRC

\* rawData[table].map(record => convertTypes(record, schema))
TypedRecords(raw, tb) ==
    [i \in 1..Len(raw[tb]) |-> convertTypes(raw[tb][i], SchemaOf(tb))]

\* new Reader()
NewReader ==
    [projects |-> <<>>, activities |-> <<>>, wbs |-> <<>>, resources |-> <<>>,
     relationships |-> <<>>, activityResources |-> <<>>,
     rawData |-> [tb \in {} |-> <<>>]]

\* buildCollections(): a collection is assigned when its table is in rawData
buildCollections(rd) ==
    [c \in DOMAIN rd |->
        IF c = "rawData" THEN rd.rawData
        ELSE IF TableOf[c] \in DOMAIN rd.rawData
             THEN TypedRecords(rd.rawData, TableOf[c])
             ELSE rd[c]]

\* parseContent(content) on the Reader rd
parseContent(rd, text) ==
    buildCollections([rd EXCEPT !.rawData = ParseContent(text)])

\* The texts handed to Reader.parseContent: up to maxBlocks tables, each a
\* table line, a field line and at most one data row.
TableFields ==
    [tb \in {"PROJECT", "TASK", "PROJWBS", "RSRC", "TASKPRED", "TASKRSRC"} |->
        CASE tb = "PROJECT" -> <<"proj_id", "proj_name">>
          [] tb = "TASK" -> <<"task_id", "proj_id", "total_float_hr_cnt">>
          [] tb = "PROJWBS" -> <<"wbs_id", "seq_num">>
          [] tb = "RSRC" -> <<"rsrc_id", "rsrc_name">>
          [] tb = "TASKPRED" -> <<"task_id", "pred_task_id", "lag_hr_cnt">>
          [] tb = "TASKRSRC" -> <<"task_id", "rsrc_id", "target_qty">>]

TableRows ==
    [tb \in DOMAIN TableFields |->
        CASE tb = "PROJECT" -> {<<"P1", "Alpha">>, <<"P2", "Beta">>}
          [] tb = "TASK" -> {<<"A", "P1", "0">>, <<"B", "P2", "-5">>}
          [] tb = "PROJWBS" -> {<<"W1", "1">>}
          [] tb = "RSRC" -> {<<"R1", "Crane">>}
          [] tb = "TASKPRED" -> {<<"B", "A", "abc">>}
          [] tb = "TASKRSRC" -> {<<"A", "R1", "70">>}]

Blocks ==
    UNION {{<<[mark |-> "%T", cells |-> <<tb>>],
              [mark |-> "%F", cells |-> TableFields[tb]]>>}
           \cup {<<[mark |-> "%T", cells |-> <<tb>>],
                   [mark |-> "%F", cells |-> TableFields[tb]],
                   [mark |-> "%R", cells |-> row]>> : row \in TableRows[tb]}
           : tb \in DOMAIN TableFields}

RECURSIVE Concat(_)
Concat(ss) == IF ss = <<>> THEN <<>> ELSE ss[1] \o Concat(Tail(ss))

Texts(maxBlocks) == {Concat(bs) : bs \in SeqsUpTo(Blocks, maxBlocks)}

InitReader == reader = NewReader /\ nparses = 0

IdleReader == InitReader

ReaderParseContent(text) ==
    /\ nparses < MaxParses
    /\ nparses' = nparses + 1
    /\ reader' = parseContent(reader, text)
    /\ UNCHANGED <<parserVars, convertVars, ganttVars, curveVars, appVars, taskVars>>

(***************************************************************************)
(* Reader: the accessors                                                   *)
(***************************************************************************)
\* v === w
StrictEq(v, w) == v = w /\ v.t # "NaN"

\* the index of the first element array.find(P) returns, 0 when none
FindIndex(array, P(_)) ==
    IF \E i \in 1..Len(array) : P(array[i])
    THEN CHOOSE i \in 1..Len(array) :
            P(array[i]) /\ \A j \in 1..(i - 1) : ~P(array[j])
    ELSE 0

CountIf(array, P(_)) == Len(SelectSeq(array, P))

\* array.find(P): undefined when no element satisfies P
Find(array, P(_)) ==
    LET i == FindIndex(array, P) IN IF i = 0 THEN Undefined ELSE array[i]

\* what reading a property of undefined or null throws
TypeError == [t |-> "TypeError", n |-> 0, s |-> ""]

\* an object, as opposed to a primitive value
IsObject(v) == "t" \notin DOMAIN v

\* obj.key
Member(obj, key) ==
    IF IsObject(obj) THEN Get(obj, key)
    ELSE IF obj \in {Undefined, Null} THEN TypeError ELSE Undefined

\* array.slice(0, n)
Slice(array, n) == SubSeq(array, 1, IF Len(array) < n THEN Len(array) ELSE n)

RECURSIVE SumSeq(_)
SumSeq(ns) == IF ns = <<>> THEN 0 ELSE ns[1] + SumSeq(Tail(ns))

getActivitiesByProject(rd, projectId) ==
    SelectSeq(rd.activities, LAMBDA a : StrictEq(Get(a, "proj_id"), projectId))

IsCritical_FloatAtMostZero(activity) ==
    \/ convertToNumber(Get(activity, "total_float_hr_cnt")).n <= 0
    \/ StrictEq(Get(activity, "driving_path_flag"), Str("Y"))

\* the filter condition of getCriticalActivities
IsCritical(activity) ==
    \/ StrictEq(convertToNumber(Get(activity, "total_float_hr_cnt")), Num(0))
    \/ StrictEq(Get(activity, "driving_path_flag"), Str("Y"))

getCriticalActivities_StatedFloatOnly(rd) ==
    SelectSeq(rd.activities,
              LAMBDA a : "total_float_hr_cnt" \in DOMAIN a /\ IsCritical(a))

getCriticalActivities(rd) == SelectSeq(rd.activities, IsCritical)

getResourceAssignmentsByResource(rd, resourceId) ==
    SelectSeq(rd.activityResources,
              LAMBDA ar : StrictEq(Get(ar, "rsrc_id"), resourceId))

PropertyKey_OneKey(v) == "R1"

\* the property name a value is converted to when it indexes an object
PropertyKey(v) ==
    CASE v.t = "string" -> v.s
      [] v.t = "undefined" -> "undefined"
      [] v.t = "null" -> "null"
      [] OTHER -> "[value]"

\* the number stored in a numeric field
NumberOf(v) == convertToNumber(v).n

\* getResourceUtilization(): an object keyed by resource id, one entry for
\* each resource id that occurs in an assignment
getResourceUtilization(rd) ==
    LET ars == rd.activityResources
        keys == {PropertyKey(Get(ars[i], "rsrc_id")) : i \in 1..Len(ars)}
        own(k) == SelectSeq(ars, LAMBDA ar : PropertyKey(Get(ar, "rsrc_id")) = k)
        sum(k, f) == SumSeq([i \in 1..Len(own(k)) |-> NumberOf(Get(own(k)[i], f))])
    IN  [k \in keys |->
            [resource |->
                LET rid == Get(own(k)[1], "rsrc_id")
                    ri == FindIndex(rd.resources,
                              LAMBDA r : StrictEq(Get(r, "rsrc_id"), rid))
                IN  IF ri = 0 THEN <<>> ELSE <<rd.resources[ri]>>,
             totalTargetQty |-> sum(k, "target_qty"),
             totalActualQty |-> sum(k, "act_reg_qty") + sum(k, "act_ot_qty"),
             totalTargetCost |-> sum(k, "target_cost"),
             totalActualCost |-> sum(k, "act_reg_cost") + sum(k, "act_ot_cost"),
             assignmentCount |-> Len(own(k)),
             assignments |-> own(k)]]

(***************************************************************************)
(* Reader.getResourceCurve.  Dates are whole days; quantities allocated to *)
(* a bucket are exact fractions [num, den].                                *)
(***************************************************************************)
WeekDays == 7

Abs(n) == IF n < 0 THEN 0 - n ELSE n

RECURSIVE GCD(_, _)
GCD(a, b) == IF b = 0 THEN a ELSE GCD(b, a % b)

\* the fraction n/d in lowest terms, d # 0
Frac(n, d) ==
    LET g == GCD(Abs(n), Abs(d))
        sg == IF d < 0 THEN 0 - 1 ELSE 1
    IN  [num |-> sg * (n \div g), den |-> sg * (d \div g)]

FracAdd(x, y) == Frac(x.num * y.den + y.num * x.den, x.den * y.den)
FracMul(n, x) == Frac(n * x.num, x.den)
Zero == [num |-> 0, den |-> 1]

RECURSIVE FracSum(_)
FracSum(xs) == IF xs = <<>> THEN Zero ELSE FracAdd(xs[1], FracSum(Tail(xs)))

\* the activityData entry of one assignment: none when the activity is
\* unknown or lacks a start or an end date
ActivityDataOf(rd, assignment) ==
    LET ai == FindIndex(rd.activities,
                  LAMBDA a : StrictEq(Get(a, "task_id"), Get(assignment, "task_id")))
    IN  IF ai = 0 THEN <<>>
        ELSE LET activity == rd.activities[ai]
                 startDate == Or(Get(activity, "act_start_date"),
                                 Get(activity, "early_start_date"))
                 endDate == Or(Get(activity, "act_end_date"),
                               Get(activity, "early_end_date"))
             IN  IF Truthy(startDate) /\ Truthy(endDate)
                 THEN <<[activityId |-> Get(activity, "task_id"),
                         startDate |-> startDate.n,
                         endDate |-> endDate.n,
                         targetQty |-> NumberOf(Get(assignment, "target_qty")),
                         actualQty |-> NumberOf(Get(assignment, "act_reg_qty"))
                                       + NumberOf(Get(assignment, "act_ot_qty")),
                         targetCost |-> NumberOf(Get(assignment, "target_cost")),
                         actualCost |-> NumberOf(Get(assignment, "act_reg_cost"))
                                        + NumberOf(Get(assignment, "act_ot_cost"))]>>
                 ELSE <<>>

\* activityData.sort((a, b) => a.startDate - b.startDate): a stable sort
RECURSIVE SortByStart(_)
SortByStart(ads) ==
    IF ads = <<>> THEN <<>>
    ELSE LET rest == SortByStart(Front(ads))
             x == Last(ads)
             before == SelectSeq(rest, LAMBDA y : y.startDate <= x.startDate)
             after == SelectSeq(rest, LAMBDA y : y.startDate > x.startDate)
         IN  before \o <<x>> \o after

OverlapRatio_NoClip(activity, weekStart, weekEnd) ==
    LET overlapStart == Max(activity.startDate, weekStart)
        overlapEnd == activity.endDate
        overlapDuration == Max(0, overlapEnd - overlapStart)
        activityDuration == activity.endDate - activity.startDate
    IN  IF activityDuration > 0 THEN Frac(overlapDuration, activityDuration)
        ELSE Zero

\* overlapRatio of an activity in the week [weekStart, weekEnd]
OverlapRatio(activity, weekStart, weekEnd) ==
    LET overlapStart == Max(activity.startDate, weekStart)
        overlapEnd == Min(activity.endDate, weekEnd)
        overlapDuration == Max(0, overlapEnd - overlapStart)
        activityDuration == activity.endDate - activity.startDate
    IN  IF activityDuration > 0 THEN Frac(overlapDuration, activityDuration)
        ELSE Zero

IsActiveInWeek_EndsAfterWeekStart(activity, weekStart, weekEnd) ==
    activity.startDate <= weekEnd /\ activity.endDate > weekStart

\* the condition under which an activity is active during a week
IsActiveInWeek(activity, weekStart, weekEnd) ==
    activity.startDate <= weekEnd /\ activity.endDate >= weekStart

\* the time point pushed for the week that starts at currentDate
TimePoint(activityData, currentDate) ==
    LET weekStart == currentDate
        weekEnd == currentDate + WeekDays
        active == SelectSeq(activityData,
                      LAMBDA a : IsActiveInWeek(a, weekStart, weekEnd))
        activeActivities ==
            [i \in 1..Len(active) |->
                LET a == active[i]
                    overlapRatio == OverlapRatio(a, weekStart, weekEnd)
                IN  [activityId |-> a.activityId,
                     startDate |-> a.startDate, endDate |-> a.endDate,
                     targetQty |-> a.targetQty, actualQty |-> a.actualQty,
                     targetCost |-> a.targetCost, actualCost |-> a.actualCost,
                     weeklyTargetQty |-> FracMul(a.targetQty, overlapRatio),
                     weeklyActualQty |-> FracMul(a.actualQty, overlapRatio),
                     weeklyTargetCost |-> FracMul(a.targetCost, overlapRatio),
                     weeklyActualCost |-> FracMul(a.actualCost, overlapRatio),
                     overlapRatio |-> overlapRatio]]
        total(f) == FracSum([i \in 1..Len(activeActivities) |-> activeActivities[i][f]])
    IN  [date |-> weekStart, weekEnd |-> weekEnd,
         weeklyTargetQty |-> total("weeklyTargetQty"),
         weeklyActualQty |-> total("weeklyActualQty"),
         weeklyTargetCost |-> total("weeklyTargetCost"),
         weeklyActualCost |-> total("weeklyActualCost"),
         activeActivities |-> activeActivities]

\* while (currentDate <= projectEndDate) { push; currentDate += week }
RECURSIVE WeekLoop(_, _, _)
WeekLoop(activityData, currentDate, projectEndDate) ==
    IF currentDate <= projectEndDate
    THEN <<TimePoint(activityData, currentDate)>>
         \o WeekLoop(activityData, currentDate + WeekDays, projectEndDate)
    ELSE <<>>

SetMin(S) == CHOOSE x \in S : \A y \in S : x <= y
SetMax(S) == CHOOSE x \in S : \A y \in S : x >= y

ProjectStartDate_EarliestEnd(activityData) ==
    SetMin({activityData[i].endDate : i \in 1..Len(activityData)})

\* new Date(Math.min(...activityData.map(a => a.startDate)))
ProjectStartDate(activityData) ==
    SetMin({activityData[i].startDate : i \in 1..Len(activityData)})

\* the activityData array of getResourceCurve, sorted
ActivityData(rd, resourceId) ==
    LET assignments == getResourceAssignmentsByResource(rd, resourceId)
    IN  SortByStart(Concat([i \in 1..Len(assignments) |->
                               ActivityDataOf(rd, assignments[i])]))

getResourceCurve(rd, resourceId) ==
    LET assignments == getResourceAssignmentsByResource(rd, resourceId)
        activityData == ActivityData(rd, resourceId)
        ri == FindIndex(rd.resources,
                  LAMBDA r : StrictEq(Get(r, "rsrc_id"), resourceId))
        resource == IF ri = 0 THEN <<>> ELSE <<rd.resources[ri]>>
    IN  IF activityData = <<>>
        THEN [resourceId |-> resourceId, resource |-> resource,
              dataPoints |-> <<>>, timeBasedData |-> <<>>]
        ELSE LET projectStartDate == ProjectStartDate(activityData)
                 projectEndDate ==
                     SetMax({activityData[i].endDate : i \in 1..Len(activityData)})
                 known == SelectSeq(assignments, LAMBDA ar :
                              FindIndex(rd.activities, LAMBDA a :
                                  StrictEq(Get(a, "task_id"), Get(ar, "task_id"))) # 0)
             IN  [resourceId |-> resourceId, resource |-> resource,
                  dataPoints |->
                      [i \in 1..Len(known) |->
                          [activityId |-> Get(known[i], "task_id"),
                           targetQty |-> NumberOf(Get(known[i], "target_qty"))]],
                  timeBasedData |->
                      WeekLoop(activityData, projectStartDate, projectEndDate)]

\* the counts of getSummaryStats: how many records have each key
Breakdown(array, field) ==
    LET key(x) == PropertyKey(Or(Get(x, field), Str("Unknown")))
    IN  [k \in {key(array[i]) : i \in 1..Len(array)} |->
            CountIf(array, LAMBDA x : key(x) = k)]

\* getSummaryStats(); durationStats is set when a duration is positive
getSummaryStats(rd) ==
    LET all == [i \in 1..Len(rd.activities) |->
                   NumberOf(Get(rd.activities[i], "target_drtn_hr_cnt"))]
        durations == SelectSeq(all, LAMBDA d : d > 0)
    IN  [totalProjects |-> Len(rd.projects),
         totalActivities |-> Len(rd.activities),
         totalResources |-> Len(rd.resources),
         totalRelationships |-> Len(rd.relationships),
         totalResourceAssignments |-> Len(rd.activityResources),
         statusBreakdown |-> Breakdown(rd.activities, "status_code"),
         resourceBreakdown |-> Breakdown(rd.resources, "rsrc_type"),
         durationStats |->
            IF Len(durations) > 0
            THEN <<[total |-> SumSeq(durations),
                    average |-> Frac(SumSeq(durations), Len(durations)),
                    min |-> SetMin(Range(durations)),
                    max |-> SetMax(Range(durations))]>>
            ELSE <<>>]

(***************************************************************************)
(* IntegrityChecker: the 14 DCMA checks.  A check returns its number, its  *)
(* status and its details; a count is an integer, a percentage a fraction  *)
(* [num, den], where den = 0 stands for the result of a division by zero   *)
(* (0/0: NaN).                                                             *)
(***************************************************************************)
\* a / b in floating point, kept exact
Div(a, b) ==
    IF b = 0
    THEN [num |-> IF a = 0 THEN 0 ELSE IF a > 0 THEN 1 ELSE 0 - 1, den |-> 0]
    ELSE Frac(a, b)

FracIsNaN(x) == x.den = 0 /\ x.num = 0

\* x >= n and x <= n for an integer n; a comparison with NaN is false
FracGE(x, n) == IF x.den = 0 THEN x.num > 0 ELSE x.num >= n * x.den
FracLE(x, n) == IF x.den = 0 THEN x.num < 0 ELSE x.num <= n * x.den

\* x.toFixed(1): x rounded to one decimal place; NaN stays NaN
ToFixed1(x) ==
    IF x.den = 0 THEN x
    ELSE Frac((20 * x.num + x.den) \div (2 * x.den), 10)

\* parseFloat(v) for a number or a string
ParseFloat(v) ==
    CASE v.t = "number" -> v
      [] v.t = "string" /\ v.s \in DOMAIN NumericLiterals -> Num(NumericLiterals[v.s])
      [] OTHER -> NaN

\* a < b, a > b on numbers; a comparison with NaN is false
Less(a, b) == a.t = "number" /\ b.t = "number" /\ a.n < b.n
Greater(a, b) == Less(b, a)

\* parseFloat(a[field] || 0)
FloatField(a, field) == ParseFloat(Or(Get(a, field), Num(0)))

LogicStatus_DanglingOnly(danglingActivities, startMilestones, finishMilestones) ==
    IF danglingActivities = 0 THEN "pass" ELSE "fail"

\* the status of checkLogic
LogicStatus(danglingActivities, startMilestones, finishMilestones) ==
    IF danglingActivities = 0 /\ startMilestones >= 1 /\ finishMilestones >= 1
    THEN "pass" ELSE "fail"

checkLogic(activities, relationships) ==
    LET activitiesWithPred ==
            {Get(relationships[i], "task_id") : i \in 1..Len(relationships)}
        activitiesWithSucc ==
            {Get(relationships[i], "pred_task_id") : i \in 1..Len(relationships)}
        noPred(a) == Get(a, "task_id") \notin activitiesWithPred
        noSucc(a) == Get(a, "task_id") \notin activitiesWithSucc
        zeroDuration(a) ==
            \/ StrictEq(Get(a, "target_drtn_hr_cnt"), Num(0))
            \/ ~Truthy(Get(a, "target_drtn_hr_cnt"))
        work(a) == Greater(FloatField(a, "target_drtn_hr_cnt"), Num(0))
        startMilestones == CountIf(activities, LAMBDA a : noPred(a) /\ zeroDuration(a))
        finishMilestones == CountIf(activities, LAMBDA a : noSucc(a) /\ zeroDuration(a))
        danglingActivities == CountIf(activities, LAMBDA a : noPred(a) /\ noSucc(a))
    IN  [number |-> 1,
         status |-> LogicStatus(danglingActivities, startMilestones,
                                finishMilestones),
         details |->
            [danglingActivities |-> danglingActivities,
             startMilestones |-> startMilestones,
             finishMilestones |-> finishMilestones,
             totalActivities |-> Len(activities),
             activitiesWithoutPred |->
                CountIf(activities, LAMBDA a : noPred(a) /\ work(a)),
             activitiesWithoutSucc |->
                CountIf(activities, LAMBDA a : noSucc(a) /\ work(a))]]

\* message: the numbers computed for the text of the message, which has
\* none when the status is 'pass'
WithMessage(point, numbers) ==
    [message |-> IF point.status = "pass" THEN <<>> ELSE numbers] @@ point

RelationshipItem_NoLookupGuard(activities, rel) ==
    LET predActivity == Find(activities, LAMBDA a :
                            StrictEq(Get(a, "task_id"), Get(rel, "pred_task_id")))
        succActivity == Find(activities, LAMBDA a :
                            StrictEq(Get(a, "task_id"), Get(rel, "task_id")))
    IN  [id |-> Get(rel, "task_pred_id"),
         predCode |-> Member(predActivity, "task_code"),
         predName |-> Member(predActivity, "task_name"),
         succCode |-> Member(succActivity, "task_code"),
         succName |-> Member(succActivity, "task_name"),
         lagHours |-> Get(rel, "lag_hr_cnt"),
         type |-> Or(Get(rel, "pred_type"), Str("FS"))]

\* the drill-down entry of one relationship in the failedItems of
\* checkLeads, checkLags and checkRelationshipTypes
RelationshipItem(activities, rel) ==
    LET predActivity == Find(activities, LAMBDA a :
                            StrictEq(Get(a, "task_id"), Get(rel, "pred_task_id")))
        succActivity == Find(activities, LAMBDA a :
                            StrictEq(Get(a, "task_id"), Get(rel, "task_id")))
    IN  [id |-> Get(rel, "task_pred_id"),
         predCode |-> IF IsObject(predActivity)
                      THEN Member(predActivity, "task_code")
                      ELSE Get(rel, "pred_task_id"),
         predName |-> IF IsObject(predActivity)
                      THEN Member(predActivity, "task_name")
                      ELSE Str("Unknown"),
         succCode |-> IF IsObject(succActivity)
                      THEN Member(succActivity, "task_code")
                      ELSE Get(rel, "task_id"),
         succName |-> IF IsObject(succActivity)
                      THEN Member(succActivity, "task_name")
                      ELSE Str("Unknown"),
         lagHours |-> Get(rel, "lag_hr_cnt"),
         type |-> Or(Get(rel, "pred_type"), Str("FS"))]

\* relationships.slice(0, 50).map(rel => item)
RelationshipItems(activities, relationships) ==
    [i \in 1..Len(Slice(relationships, 50)) |->
        RelationshipItem(activities, relationships[i])]

LeadsPercentage_NoGuard(count, total) == ToFixed1(Div(100 * count, total))

\* the percentage in the details of checkLeads and checkLags
LeadsPercentage(count, total) ==
    IF total > 0 THEN ToFixed1(Div(100 * count, total)) ELSE Zero

checkLeads(activities, relationships) ==
    LET leadRelationships == SelectSeq(relationships, LAMBDA rel :
                          /\ Truthy(Get(rel, "lag_hr_cnt"))
                          /\ Less(ParseFloat(Get(rel, "lag_hr_cnt")), Num(0)))
        leadsCount == Len(leadRelationships)
    IN  WithMessage(
            [number |-> 2,
             status |-> IF leadsCount = 0 THEN "pass"
                        ELSE IF 20 * leadsCount <= Len(relationships) THEN "warning"
                        ELSE "fail",
             details |->
                [leadsCount |-> leadsCount,
                 totalRelationships |-> Len(relationships),
                 percentage |-> LeadsPercentage(leadsCount, Len(relationships))],
             failedItems |->
                [leadRelationships |->
                    RelationshipItems(activities, leadRelationships)]],
            <<ToFixed1(Div(100 * leadsCount, Len(relationships)))>>)

checkLags(activities, relationships) ==
    LET lagRelationships == SelectSeq(relationships, LAMBDA rel :
                         /\ Truthy(Get(rel, "lag_hr_cnt"))
                         /\ Greater(ParseFloat(Get(rel, "lag_hr_cnt")), Num(0)))
        lagsCount == Len(lagRelationships)
    IN  WithMessage(
            [number |-> 3,
             status |-> IF 10 * lagsCount <= Len(relationships) THEN "pass"
                        ELSE "warning",
             details |->
                [lagsCount |-> lagsCount,
                 totalRelationships |-> Len(relationships),
                 percentage |-> LeadsPercentage(lagsCount, Len(relationships))],
             failedItems |->
                [lagRelationships |->
                    RelationshipItems(activities, lagRelationships)]],
            <<ToFixed1(Div(100 * lagsCount, Len(relationships)))>>)

FsPercentage_NoGuard(count, total) == Div(100 * count, total)

\* the percentage of checkRelationshipTypes and checkResources
FsPercentage(count, total) ==
    IF total > 0 THEN Div(100 * count, total) ELSE Frac(100, 1)

StatusAtLeast_NoWarning(percentage, pass, warning) ==
    IF FracGE(percentage, pass) THEN "pass" ELSE "fail"

\* status by a percentage that should be high
StatusAtLeast(percentage, pass, warning) ==
    IF FracGE(percentage, pass) THEN "pass"
    ELSE IF FracGE(percentage, warning) THEN "warning" ELSE "fail"

\* status by a percentage that should be low
StatusAtMost(percentage, pass, warning) ==
    IF FracLE(percentage, pass) THEN "pass"
    ELSE IF FracLE(percentage, warning) THEN "warning" ELSE "fail"

checkRelationshipTypes(activities, relationships) ==
    LET fsRelationships == CountIf(relationships, LAMBDA rel :
                               \/ ~Truthy(Get(rel, "pred_type"))
                               \/ StrictEq(Get(rel, "pred_type"), Str("PR_FS")))
        nonFsRelationships == SelectSeq(relationships, LAMBDA rel :
                               /\ Truthy(Get(rel, "pred_type"))
                               /\ ~StrictEq(Get(rel, "pred_type"), Str("PR_FS")))
        items == RelationshipItems(activities, nonFsRelationships)
        percentage == FsPercentage(fsRelationships, Len(relationships))
    IN  WithMessage(
            [number |-> 4,
             status |-> StatusAtLeast(percentage, 90, 80),
             details |->
                [fsRelationships |-> fsRelationships,
                 totalRelationships |-> Len(relationships),
                 percentage |-> ToFixed1(percentage)],
             failedItems |->
                [nonFsRelationships |->
                    [i \in 1..Len(items) |->
                        [items[i] EXCEPT !.lagHours = Or(@, Num(0))]]]],
            <<ToFixed1(percentage)>>)

checkHardConstraints_CountsUnconstrained(activities) ==
    LET constrainedActivities == CountIf(activities, LAMBDA a :
            /\ ~StrictEq(Get(a, "cstr_type"), Str("CS_ALAP"))
            /\ ~StrictEq(Get(a, "cstr_type"), Str("CS_ASAP")))
    IN  [number |-> 5,
         status |-> IF constrainedActivities = 0 THEN "pass"
                    ELSE IF 20 * constrainedActivities <= Len(activities)
                    THEN "warning" ELSE "fail",
         details |->
            [constrainedActivities |-> constrainedActivities,
             totalActivities |-> Len(activities),
             percentage |-> LeadsPercentage(constrainedActivities, Len(activities))]]

checkHardConstraints(activities) ==
    LET constrainedActivities == CountIf(activities, LAMBDA a :
            /\ Truthy(Get(a, "cstr_type"))
            /\ ~StrictEq(Get(a, "cstr_type"), Str("CS_ALAP"))
            /\ ~StrictEq(Get(a, "cstr_type"), Str("CS_ASAP")))
    IN  [number |-> 5,
         status |-> IF constrainedActivities = 0 THEN "pass"
                    ELSE IF 20 * constrainedActivities <= Len(activities)
                    THEN "warning" ELSE "fail",
         details |->
            [constrainedActivities |-> constrainedActivities,
             totalActivities |-> Len(activities),
             percentage |-> LeadsPercentage(constrainedActivities, Len(activities))]]

\* the percentage of checks 6, 8, 11 and 12
SharePercentage(count, total) ==
    IF total > 0 THEN Div(100 * count, total) ELSE Zero

checkHighFloat(activities) ==
    LET highFloatActivities == CountIf(activities, LAMBDA a :
            Greater(FloatField(a, "total_float_hr_cnt"), Num(168)))
        percentage == SharePercentage(highFloatActivities, Len(activities))
    IN  WithMessage(
            [number |-> 6,
             status |-> StatusAtMost(percentage, 5, 10),
             details |->
                [highFloatActivities |-> highFloatActivities,
                 totalActivities |-> Len(activities),
                 percentage |-> ToFixed1(percentage)]],
            <<ToFixed1(percentage)>>)

checkNegativeFloat_Warns(activities) ==
    LET negativeFloatActivities == CountIf(activities, LAMBDA a :
            Less(FloatField(a, "total_float_hr_cnt"), Num(0)))
    IN  [number |-> 7,
         status |-> IF negativeFloatActivities = 0 THEN "pass" ELSE "warning",
         details |->
            [negativeFloatActivities |-> negativeFloatActivities,
             totalActivities |-> Len(activities)]]

checkNegativeFloat(activities) ==
    LET negativeFloatActivities == CountIf(activities, LAMBDA a :
            Less(FloatField(a, "total_float_hr_cnt"), Num(0)))
    IN  [number |-> 7,
         status |-> IF negativeFloatActivities = 0 THEN "pass" ELSE "fail",
         details |->
            [negativeFloatActivities |-> negativeFloatActivities,
             totalActivities |-> Len(activities)]]

checkHighDuration(activities) ==
    LET highDurationActivities == CountIf(activities, LAMBDA a :
            Greater(FloatField(a, "target_drtn_hr_cnt"), Num(960)))
        percentage == SharePercentage(highDurationActivities, Len(activities))
    IN  WithMessage(
            [number |-> 8,
             status |-> StatusAtMost(percentage, 5, 10),
             details |->
                [highDurationActivities |-> highDurationActivities,
                 totalActivities |-> Len(activities),
                 percentage |-> ToFixed1(percentage)]],
            <<ToFixed1(percentage)>>)

checkInvalidDates(activities) ==
    LET invalidDateActivities == CountIf(activities, LAMBDA a :
            LET startDate == Or(Get(a, "act_start_date"), Get(a, "early_start_date"))
                endDate == Or(Get(a, "act_end_date"), Get(a, "early_end_date"))
            IN  \/ ~Truthy(startDate)
                \/ ~Truthy(endDate)
                \/ startDate.n > endDate.n)
    IN  [number |-> 9,
         status |-> IF invalidDateActivities = 0 THEN "pass" ELSE "fail",
         details |->
            [invalidDateActivities |-> invalidDateActivities,
             totalActivities |-> Len(activities)]]

checkResources(activities, assignments) ==
    LET activitiesWithResources ==
            {Get(assignments[i], "task_id") : i \in 1..Len(assignments)}
        workActivities == SelectSeq(activities, LAMBDA a :
            Greater(FloatField(a, "target_drtn_hr_cnt"), Num(0)))
        resourcedActivities == CountIf(workActivities, LAMBDA a :
            Get(a, "task_id") \in activitiesWithResources)
        percentage == FsPercentage(resourcedActivities, Len(workActivities))
    IN  WithMessage(
            [number |-> 10,
             status |-> StatusAtLeast(percentage, 95, 80),
             details |->
                [resourcedActivities |-> resourcedActivities,
                 workActivities |-> Len(workActivities),
                 percentage |-> ToFixed1(percentage)]],
            <<ToFixed1(percentage)>>)

checkIncompleteActivities(activities) ==
    LET activeActivities == SelectSeq(activities, LAMBDA a :
            StrictEq(Get(a, "status_code"), Str("TK_Active")))
        incompleteActivities == CountIf(activeActivities, LAMBDA a :
            StrictEq(FloatField(a, "phys_complete_pct"), Num(0)))
        percentage == SharePercentage(incompleteActivities, Len(activeActivities))
    IN  WithMessage(
            [number |-> 11,
             status |-> StatusAtMost(percentage, 5, 10),
             details |->
                [incompleteActivities |-> incompleteActivities,
                 activeActivities |-> Len(activeActivities),
                 percentage |-> ToFixed1(percentage)]],
            <<ToFixed1(percentage)>>)

checkCriticalPath(activities) ==
    LET criticalActivities == CountIf(activities, LAMBDA a :
            \/ StrictEq(FloatField(a, "total_float_hr_cnt"), Num(0))
            \/ StrictEq(Get(a, "driving_path_flag"), Str("Y")))
        percentage == SharePercentage(criticalActivities, Len(activities))
    IN  WithMessage(
            [number |-> 12,
             status |-> IF FracGE(percentage, 5) /\ FracLE(percentage, 15)
                        THEN "pass" ELSE "warning",
             details |->
                [criticalActivities |-> criticalActivities,
                 totalActivities |-> Len(activities),
                 percentage |-> ToFixed1(percentage)]],
            <<ToFixed1(percentage)>>)

checkCD1_StatusNotApplicable ==
    [number |-> 13, status |-> "not-applicable", details |-> [applicable |-> FALSE]]

checkCD1 == [number |-> 13, status |-> "pass", details |-> [applicable |-> FALSE]]

checkCD234 == [number |-> 14, status |-> "pass", details |-> [applicable |-> FALSE]]

Score_Floor(passedPoints, totalPoints) == (100 * passedPoints) \div totalPoints

\* Math.round((passedPoints / totalPoints) * 100)
Score(passedPoints, totalPoints) ==
    (200 * passedPoints + totalPoints) \div (2 * totalPoints)

Grade(score) ==
    IF score >= 90 THEN "A" ELSE IF score >= 80 THEN "B"
    ELSE IF score >= 70 THEN "C" ELSE IF score >= 60 THEN "D" ELSE "F"

\* runDCMA14Assessment() on app.allActivities and app.currentReader
runDCMA14Assessment(activities, rd) ==
    LET relationships == rd.relationships
        assignments == rd.activityResources
        points == <<checkLogic(activities, relationships),
                    checkLeads(activities, relationships),
                    checkLags(activities, relationships),
                    checkRelationshipTypes(activities, relationships),
                    checkHardConstraints(activities),
                    checkHighFloat(activities),
                    checkNegativeFloat(activities),
                    checkHighDuration(activities),
                    checkInvalidDates(activities),
                    checkResources(activities, assignments),
                    checkIncompleteActivities(activities),
                    checkCriticalPath(activities),
                    checkCD1,
                    checkCD234>>
        passedPoints == CountIf(points, LAMBDA pt : pt.status = "pass")
        score == Score(passedPoints, 14)
    IN  [points |-> points,
         summary |->
            [totalPoints |-> 14,
             passedPoints |-> passedPoints,
             failedPoints |-> CountIf(points, LAMBDA pt : pt.status = "fail"),
             warningPoints |-> CountIf(points, LAMBDA pt : pt.status = "warning"),
             score |-> score,
             grade |-> Grade(score)]]

(***************************************************************************)
(* Specification of the resource curve: a Reader holding one or two dated  *)
(* activities and their assignments to resource R1                         *)
(***************************************************************************)
\* which date fields of the first activity carry its dates
DateKinds == {"actual", "early", "both", "no-start", "no-end"}

\* a typed TASK record with the given dates
DatedActivity(id, kind, s, e) ==
    [task_id |-> Str(id), proj_id |-> Str("P1"),
     act_start_date |-> IF kind \in {"actual", "both"} THEN DateV(s) ELSE Null,
     act_end_date |-> IF kind \in {"actual", "both"} THEN DateV(e) ELSE Null,
     early_start_date |->
        CASE kind \in {"early", "no-end"} -> DateV(s)
          [] kind = "both" -> DateV(0)
          [] OTHER -> Null,
     early_end_date |->
        CASE kind \in {"early", "no-start"} -> DateV(e)
          [] kind = "both" -> DateV(0)
          [] OTHER -> Null]

Assignment(task, rsrc, qty) ==
    [task_id |-> Str(task), rsrc_id |-> Str(rsrc), target_qty |-> Num(qty),
     target_cost |-> Num(10 * qty)]

\* besides one assignment per activity: none, one to an unknown activity,
\* or a second assignment of R1 to activity A
ExtraAssignments ==
    {<<>>, <<Assignment("Z", "R1", 5)>>, <<Assignment("A", "R1", 30)>>}

CurveReaders(maxDay, maxPairDay) ==
    {[NewReader EXCEPT
        !.projects = <<[proj_id |-> Str("P1")]>>,
        !.resources = <<[rsrc_id |-> Str("R1"), rsrc_name |-> Str("Crane")]>>,
        !.activities = acts,
        !.activityResources =
            [i \in 1..Len(acts) |->
                Assignment(acts[i].task_id.s, "R1", IF i = 1 THEN 70 ELSE 30)]
            \o extra] :
     acts \in
        {<<DatedActivity("A", k, s, e)>> :
            k \in DateKinds, s \in 0..maxDay, e \in 0..maxDay}
        \cup
        {<<DatedActivity("A", k, s, e), DatedActivity("B", "early", s2, e2)>> :
            k \in {"actual"}, s \in 0..maxPairDay, e \in 0..maxPairDay,
            s2 \in 0..maxPairDay, e2 \in 0..maxPairDay},
     extra \in ExtraAssignments}

NoCurve == [returned |-> FALSE, value |-> <<>>]
NoCritical == [returned |-> FALSE, value |-> <<>>]
NoStats == [returned |-> FALSE, value |-> <<>>]
NotCalled == [returned |-> FALSE, value |-> <<>>]

InitCurve ==
    /\ reader \in CurveReaders(MaxDay, MaxPairDay)
    /\ nparses = 0
    /\ curve = NoCurve
    /\ critical = NoCritical
    /\ stats = NoStats
    /\ utilization = NotCalled

IdleCurve ==
    curve = NoCurve /\ critical = NoCritical /\ stats = NoStats
    /\ utilization = NotCalled

GetResourceCurve(resourceId) ==
    /\ curve' = [returned |-> TRUE,
                 value |-> getResourceCurve(reader, resourceId)]
    /\ UNCHANGED <<parserVars, convertVars, ganttVars, readerVars, critical, stats,
                   utilization, appVars,
                   taskVars>>

ResourceIds == {Str("R1"), Str("R2")}

(***************************************************************************)
(* Schedules: the typed records of generated TASK, TASKPRED and TASKRSRC   *)
(* tables                                                                  *)
(***************************************************************************)
\* an activity of 40 hours that no check objects to
PlainActivity ==
    [proj_id |-> Str("P1"), target_drtn_hr_cnt |-> Num(40),
     total_float_hr_cnt |-> Num(40), driving_path_flag |-> Str("N"),
     cstr_type |-> Str(""), act_start_date |-> Null, act_end_date |-> Null,
     early_start_date |-> DateV(0), early_end_date |-> DateV(7),
     status_code |-> Str("TK_NotStart"), phys_complete_pct |-> Num(0)]

Milestone == [PlainActivity EXCEPT !.target_drtn_hr_cnt = Num(0)]

\* the same without the float column (the row ended before it)
WithoutFloat ==
    [f \in DOMAIN PlainActivity \ {"total_float_hr_cnt"} |-> PlainActivity[f]]

Profiles ==
    {PlainActivity, Milestone, WithoutFloat,
     [PlainActivity EXCEPT !.total_float_hr_cnt = Num(0)],
     [PlainActivity EXCEPT !.total_float_hr_cnt = Num(0 - 5)],
     [PlainActivity EXCEPT !.total_float_hr_cnt = Num(200)],
     [PlainActivity EXCEPT !.driving_path_flag = Str("Y")],
     [PlainActivity EXCEPT !.cstr_type = Str("CS_MSO")],
     [PlainActivity EXCEPT !.target_drtn_hr_cnt = Num(1000)],
     [PlainActivity EXCEPT !.early_start_date = Null],
     [PlainActivity EXCEPT !.early_start_date = DateV(14)],
     [PlainActivity EXCEPT !.status_code = Str("TK_Active")],
     [PlainActivity EXCEPT !.proj_id = Str("P2")]}

WithId(profile, id) == [task_id |-> Str(id)] @@ profile

Relationship(pred, succ, type, lag) ==
    [task_pred_id |-> Str(pred \o succ), task_id |-> Str(succ),
     pred_task_id |-> Str(pred), pred_type |-> Str(type), lag_hr_cnt |-> Num(lag)]

\* Z is the id of no activity
Relationships ==
    {Relationship("A", "B", k[1], k[2]) :
        k \in {<<"PR_FS", 0>>, <<"PR_SS", 0>>, <<"", 0 - 8>>, <<"PR_FS", 8>>}}
    \cup {Relationship("Z", "A", "PR_FS", 0)}

ActivityIds == <<"A", "B", "C", "D">>

Schedule(acts, rels, ars) ==
    [NewReader EXCEPT
        !.projects = <<[proj_id |-> Str("P1"), proj_name |-> Str("Alpha")]>>,
        !.resources = <<[rsrc_id |-> Str("R1"), rsrc_name |-> Str("Crane")]>>,
        !.activities = acts, !.relationships = rels, !.activityResources = ars]

WithIds(profiles) == [i \in 1..Len(profiles) |-> WithId(profiles[i], ActivityIds[i])]

\* schedules of up to maxActs activities with or without a relationship, and
\* schedules of at most one activity and up to maxRels relationships
GeneratedSchedules(maxActs, maxRels) ==
    {Schedule(WithIds(ps), rels, ars) :
        ps \in SeqsUpTo(Profiles, maxActs),
        rels \in {<<>>, <<Relationship("A", "B", "PR_FS", 0)>>},
        ars \in {<<>>, <<Assignment("A", "R1", 70)>>}}
    \cup
    {Schedule(WithIds(ps), rels, ars) :
        ps \in SeqsUpTo(Profiles, 1),
        rels \in SeqsUpTo(Relationships, maxRels),
        ars \in {<<>>, <<Assignment("A", "R1", 70)>>}}

\* the activities of every float, with and without the driving-path flag
FloatProfiles ==
    {[profile EXCEPT !.driving_path_flag = Str(flag)] :
        profile \in {WithoutFloat, PlainActivity,
                     [PlainActivity EXCEPT !.total_float_hr_cnt = Num(0)],
                     [PlainActivity EXCEPT !.total_float_hr_cnt = Num(0 - 5)]},
        flag \in {"Y", "N"}}

CriticalSchedules(maxActs) ==
    {Schedule(WithIds(ps), <<>>, <<>>) : ps \in SeqsUpTo(FloatProfiles, maxActs)}

\* A chain T1 -> T2 -> ... -> Tn of finish-to-start relationships between a
\* start and a finish milestone; T2 is critical, T3 has the given profile,
\* every activity with work has a resource.
ChainSchedule(n, profile) ==
    LET id(i) == "T" \o ToString(i)
        acts == [i \in 1..n |->
                    WithId(IF i \in {1, n} THEN Milestone
                           ELSE IF i = 2
                           THEN [PlainActivity EXCEPT !.total_float_hr_cnt = Num(0)]
                           ELSE IF i = 3 THEN profile
                           ELSE PlainActivity, id(i))]
    IN  Schedule(acts,
                 [i \in 1..(n - 1) |-> Relationship(id(i), id(i + 1), "PR_FS", 0)],
                 [i \in 1..(n - 2) |-> Assignment(id(i + 1), "R1", 70)])

ChainSchedules == {ChainSchedule(ChainLen, profile) : profile \in Profiles}

(***************************************************************************)
(* Specification of getCriticalActivities                                  *)
(***************************************************************************)
InitCritical ==
    /\ reader \in CriticalSchedules(MaxActs)
    /\ nparses = 0
    /\ curve = NoCurve
    /\ critical = NoCritical
    /\ stats = NoStats
    /\ utilization = NotCalled

GetCriticalActivities ==
    /\ critical' = [returned |-> TRUE, value |-> getCriticalActivities(reader)]
    /\ UNCHANGED <<parserVars, convertVars, ganttVars, readerVars, curve, stats,
                   utilization, appVars,
                   taskVars>>

(***************************************************************************)
(* ChronosApp                                                              *)
(***************************************************************************)
NoUtilization == [k \in {} |-> <<>>]

\* the fields the constructor sets
NewApp ==
    [currentReader |-> Null, currentProject |-> Null, allActivities |-> <<>>,
     allAssignments |-> <<>>, resourceUtilization |-> NoUtilization,
     integrityCheckResults |-> Null]

app ==
    [currentReader |-> currentReader, currentProject |-> currentProject,
     allActivities |-> allActivities, allAssignments |-> allAssignments,
     resourceUtilization |-> resourceUtilization,
     integrityCheckResults |-> integrityCheckResults]

\* loadProject after the text has been read and parsed into the Reader rd
LoadParsed(a, rd) ==
    IF Len(rd.projects) > 0
    THEN [a EXCEPT
            !.currentReader = rd,
            !.currentProject = rd.projects[1],
            !.allActivities =
                getActivitiesByProject(rd, Get(rd.projects[1], "proj_id")),
            !.allAssignments = rd.activityResources,
            !.resourceUtilization = getResourceUtilization(rd)]
    ELSE [a EXCEPT !.currentReader = rd]

SetApp(a) ==
    /\ currentReader' = a.currentReader
    /\ currentProject' = a.currentProject
    /\ allActivities' = a.allActivities
    /\ allAssignments' = a.allAssignments
    /\ resourceUtilization' = a.resourceUtilization
    /\ integrityCheckResults' = a.integrityCheckResults

AppIs(a) ==
    /\ currentReader = a.currentReader
    /\ currentProject = a.currentProject
    /\ allActivities = a.allActivities
    /\ allAssignments = a.allAssignments
    /\ resourceUtilization = a.resourceUtilization
    /\ integrityCheckResults = a.integrityCheckResults

NoExport == [done |-> FALSE, threw |-> FALSE, value |-> <<>>]

IdleTasks ==
    /\ loading = <<>>
    /\ timers = 0
    /\ nloads = 0
    /\ lastFile = Null
    /\ exported = NoExport

IdleApp == AppIs(NewApp) /\ IdleTasks

\* the application after one schedule has been loaded
InitAssess ==
    /\ \E rd \in GeneratedSchedules(MaxActs, MaxRels) \cup ChainSchedules :
          AppIs(LoadParsed(NewApp, rd))
    /\ IdleTasks

\* the callback of the timer of performIntegrityCheck
RunAssessment ==
    /\ integrityCheckResults' = runDCMA14Assessment(allActivities, currentReader)
    /\ UNCHANGED <<currentReader, currentProject, allActivities, allAssignments,
                   resourceUtilization>>
    /\ UNCHANGED <<parserVars, convertVars, ganttVars, readerVars, curveVars, taskVars>>

(***************************************************************************)
(* Loading files into the application.  loadProject awaits file.text(), so *)
(* a load is two steps and several loads can be pending; the timer of      *)
(* performIntegrityCheck runs the assessment in a later task.              *)
(***************************************************************************)
TableBlock(tb, rows) ==
    <<[mark |-> "%T", cells |-> <<tb>>],
      [mark |-> "%F", cells |-> TableFields[tb]]>>
    \o [i \in 1..Len(rows) |-> [mark |-> "%R", cells |-> rows[i]]]

\* the files the user can choose; the text of the last cannot be read
Files ==
    {[name |-> "alpha.xer", readable |-> TRUE,
      text |-> TableBlock("PROJECT", <<<<"P1", "Alpha">>>>)
               \o TableBlock("TASK", <<<<"A", "P1", "0">>, <<"B", "P1", "40">>>>)
               \o TableBlock("RSRC", <<<<"R1", "Crane">>>>)
               \o TableBlock("TASKPRED", <<<<"B", "A", "0">>>>)
               \o TableBlock("TASKRSRC", <<<<"A", "R1", "70">>>>)],
     [name |-> "beta.xer", readable |-> TRUE,
      text |-> TableBlock("PROJECT", <<<<"P2", "Beta">>>>)
               \o TableBlock("TASK", <<<<"C", "P2", "-5">>>>)],
     [name |-> "noproject.xer", readable |-> TRUE,
      text |-> TableBlock("TASK", <<<<"D", "P3", "40">>>>)],
     [name |-> "unreadable.xer", readable |-> FALSE, text |-> <<>>]}

Without(seq, i) == SubSeq(seq, 1, i - 1) \o SubSeq(seq, i + 1, Len(seq))

\* loadProject(file) up to its await
LoadProject(file) ==
    /\ nloads < MaxLoads
    /\ Len(loading) < MaxPending
    /\ loading' = Append(loading, file)
    /\ nloads' = nloads + 1
    /\ lastFile' = file
    /\ UNCHANGED <<timers, exported>>
    /\ UNCHANGED <<parserVars, convertVars, ganttVars, readerVars, curveVars, appVars>>

\* file.text() of the i-th pending load is fulfilled: the rest of loadProject
TextResolves(i) ==
    /\ i \in 1..Len(loading)
    /\ loading[i].readable
    /\ SetApp(LoadParsed(app, parseContent(NewReader, loading[i].text)))
    /\ loading' = Without(loading, i)
    /\ UNCHANGED <<timers, nloads, lastFile, exported>>
    /\ UNCHANGED <<parserVars, convertVars, ganttVars, readerVars, curveVars>>

\* file.text() of the i-th pending load is rejected: the catch clause
TextRejects(i) ==
    /\ i \in 1..Len(loading)
    /\ ~loading[i].readable
    /\ loading' = Without(loading, i)
    /\ UNCHANGED <<timers, nloads, lastFile, exported>>
    /\ UNCHANGED <<parserVars, convertVars, ganttVars, readerVars, curveVars, appVars>>

\* performIntegrityCheck() when it passes its guard: it sets the timer
PerformIntegrityCheck ==
    /\ ~(currentReader = Null \/ Len(allActivities) = 0)
    /\ timers < MaxPending
    /\ timers' = timers + 1
    /\ UNCHANGED <<loading, nloads, lastFile, exported>>
    /\ UNCHANGED <<parserVars, convertVars, ganttVars, readerVars, curveVars, appVars>>

\* the callback of the timer
IntegrityTimer ==
    /\ timers > 0
    /\ timers' = timers - 1
    /\ integrityCheckResults' = runDCMA14Assessment(allActivities, currentReader)
    /\ UNCHANGED <<currentReader, currentProject, allActivities, allAssignments,
                   resourceUtilization>>
    /\ UNCHANGED <<loading, nloads, lastFile, exported>>
    /\ UNCHANGED <<parserVars, convertVars, ganttVars, readerVars, curveVars>>

\* exportProjectJSON(): reading a property of currentProject throws while
\* currentProject is null
exportProjectJSON(a) ==
    IF a.currentProject = Null
    THEN [done |-> FALSE, threw |-> TRUE, value |-> <<>>]
    ELSE [done |-> TRUE, threw |-> FALSE,
          value |->
            [project |->
                [name |-> Get(a.currentProject, "proj_name"),
                 id |-> Get(a.currentProject, "proj_id")],
             statistics |->
                [totalActivities |-> Len(a.allActivities),
                 totalResources |-> Len(a.currentReader.resources),
                 totalRelationships |-> Len(a.currentReader.relationships),
                 criticalActivities |->
                    Len(getCriticalActivities(a.currentReader))]]]

ExportProjectJSON ==
    /\ exported' = exportProjectJSON(app)
    /\ exported' # exported
    /\ UNCHANGED <<loading, timers, nloads, lastFile>>
    /\ UNCHANGED <<parserVars, convertVars, ganttVars, readerVars, curveVars, appVars>>

\* exportIntegrityReportJSON(): nothing is downloaded without results; the
\* report is labelled with currentProject and holds integrityCheckResults
exportIntegrityReportJSON(a) ==
    IF a.integrityCheckResults = Null
    THEN [done |-> FALSE, threw |-> FALSE, value |-> <<>>]
    ELSE IF a.currentProject = Null
    THEN [done |-> FALSE, threw |-> TRUE, value |-> <<>>]
    ELSE [done |-> TRUE, threw |-> FALSE,
          value |->
            [project |->
                [name |-> Get(a.currentProject, "proj_name"),
                 shortName |-> Get(a.currentProject, "proj_short_name"),
                 id |-> Get(a.currentProject, "proj_id")],
             assessment |->
                [summary |-> a.integrityCheckResults.summary,
                 points |-> a.integrityCheckResults.points],
             metadata |->
                [totalActivities |-> Len(a.allActivities),
                 totalRelationships |-> Len(a.currentReader.relationships),
                 totalResources |-> Len(a.currentReader.resources)]]]

\* exportIntegrityReportCSV(): one row for each point of integrityCheckResults
exportIntegrityReportCSV(a) ==
    IF a.integrityCheckResults = Null
    THEN [done |-> FALSE, threw |-> FALSE, value |-> <<>>]
    ELSE [done |-> TRUE, threw |-> FALSE,
          value |->
            [csvData |->
                [i \in 1..Len(a.integrityCheckResults.points) |->
                    [Point |-> a.integrityCheckResults.points[i].number,
                     Status |-> a.integrityCheckResults.points[i].status,
                     Details |-> a.integrityCheckResults.points[i].details]]]]

ExportIntegrityReportJSON ==
    /\ exported' = exportIntegrityReportJSON(app)
    /\ exported' # exported
    /\ UNCHANGED <<loading, timers, nloads, lastFile>>
    /\ UNCHANGED <<parserVars, convertVars, ganttVars, readerVars, curveVars, appVars>>

ExportIntegrityReportCSV ==
    /\ exported' = exportIntegrityReportCSV(app)
    /\ exported' # exported
    /\ UNCHANGED <<loading, timers, nloads, lastFile>>
    /\ UNCHANGED <<parserVars, convertVars, ganttVars, readerVars, curveVars, appVars>>

(***************************************************************************)
(* Specification of getResourceUtilization                                 *)
(***************************************************************************)
\* typed TASKRSRC records: of resource R1 or R2, of a resource R9 that is
\* not in the resource list, or from a row that ended before the resource
\* id; with a quantity of 70, 30 or none
AssignmentKinds ==
    {[task_id |-> Str("A")] @@ r @@ q :
        r \in {[rsrc_id |-> Str("R1")], [rsrc_id |-> Str("R2")],
               [rsrc_id |-> Str("R9")], [k \in {} |-> Null]},
        q \in {[target_qty |-> Num(70)], [target_qty |-> Num(30)],
               [k \in {} |-> Null]}}

\* the Readers with resources R1, R2, R3 and up to maxAssignments assignments
UtilizationReaders(maxAssignments) ==
    {[NewReader EXCEPT
        !.resources = [i \in 1..3 |-> [rsrc_id |-> Str("R" \o ToString(i))]],
        !.activityResources =
            [i \in 1..Len(ars) |->
                [taskrsrc_id |-> Str("TR" \o ToString(i))] @@ ars[i]]] :
     ars \in SeqsUpTo(AssignmentKinds, maxAssignments)}

InitUtilization ==
    /\ reader \in UtilizationReaders(MaxAssignments)
    /\ nparses = 0
    /\ curve = NoCurve
    /\ critical = NoCritical
    /\ stats = NoStats
    /\ utilization = NotCalled

GetResourceUtilization ==
    /\ utilization' = [returned |-> TRUE, value |-> getResourceUtilization(reader)]
    /\ UNCHANGED <<parserVars, convertVars, ganttVars, readerVars, curve, critical, stats,
                   appVars, taskVars>>

(***************************************************************************)
(* A file of one project and two activities A and B, parsed, loaded and    *)
(* analysed                                                                *)
(***************************************************************************)
\* the TASK columns of the file, the float last or before the duration
TaskColumns ==
    [last |-> <<"task_id", "proj_id", "target_drtn_hr_cnt", "total_float_hr_cnt">>,
     inner |-> <<"task_id", "proj_id", "total_float_hr_cnt", "target_drtn_hr_cnt">>]

TaskRow(order, id, duration, float) ==
    [mark |-> "%R",
     cells |-> IF order = "last" THEN <<id, "P1", duration, float>>
               ELSE <<id, "P1", float, duration>>]

ScenarioText(order, aDuration, aFloat, bDuration, bFloat, rels) ==
    TableBlock("PROJECT", <<<<"P1", "Alpha">>>>)
    \o <<[mark |-> "%T", cells |-> <<"TASK">>],
         [mark |-> "%F", cells |-> TaskColumns[order]],
         TaskRow(order, "A", aDuration, aFloat),
         TaskRow(order, "B", bDuration, bFloat)>>
    \o (CASE rels = "none" -> <<>>
          [] rels = "empty" -> TableBlock("TASKPRED", <<>>)
          [] rels = "A-B" -> TableBlock("TASKPRED", <<<<"B", "A", "0">>>>))

ScenarioTexts ==
    {ScenarioText(order, aDuration, aFloat, bDuration, bFloat, rels) :
        order \in DOMAIN TaskColumns,
        aDuration \in {"0", ""}, aFloat \in {"", "0", "40", "-5"},
        bDuration \in {"40", "0"}, bFloat \in {"0", "40", "-5"},
        rels \in {"none", "empty", "A-B"}}

\* the file has been parsed by a new Reader and loaded by loadProject
InitScenario ==
    /\ \E text \in ScenarioTexts :
          /\ reader = parseContent(NewReader, text)
          /\ AppIs(LoadParsed(NewApp, parseContent(NewReader, text)))
    /\ nparses = 0
    /\ curve = NoCurve
    /\ critical = NoCritical
    /\ stats = NoStats
    /\ utilization = NotCalled
    /\ IdleTasks

GetSummaryStats ==
    /\ stats' = [returned |-> TRUE, value |-> getSummaryStats(reader)]
    /\ UNCHANGED <<parserVars, convertVars, ganttVars, readerVars, curve, critical,
                   utilization, appVars,
                   taskVars>>

(***************************************************************************)
(* Specifications                                                          *)
(***************************************************************************)
\* GanttChart after its constructor
IdleGantt == ganttData = Null /\ expandedItems = {} /\ ganttError = FALSE

Init == InitParser /\ IdleConvert /\ IdleGantt /\ IdleReader /\ IdleCurve /\ IdleApp
Next == \E raw \in RawLines : ReadLine(raw)
Spec == Init /\ [][Next]_vars

InitC == IdleParser /\ InitConvert /\ IdleGantt /\ IdleReader /\ IdleCurve /\ IdleApp
NextC == ConvertTypes
SpecConvert == InitC /\ [][NextC]_vars

InitR == IdleParser /\ IdleConvert /\ IdleGantt /\ InitReader /\ IdleCurve /\ IdleApp
NextR == \E text \in Texts(MaxBlocks) : ReaderParseContent(text)
SpecReader == InitR /\ [][NextR]_vars

InitV == IdleParser /\ IdleConvert /\ IdleGantt /\ InitCurve /\ IdleApp
NextV == \E r \in ResourceIds : GetResourceCurve(r)
SpecCurve == InitV /\ [][NextV]_vars

InitK == IdleParser /\ IdleConvert /\ IdleGantt /\ InitCritical /\ IdleApp
NextK == GetCriticalActivities
SpecCritical == InitK /\ [][NextK]_vars

InitA == IdleParser /\ IdleConvert /\ IdleGantt /\ IdleReader /\ IdleCurve /\ InitAssess
NextA == RunAssessment
SpecAssess == InitA /\ [][NextA]_vars

InitP == IdleParser /\ IdleConvert /\ IdleGantt /\ IdleReader /\ IdleCurve /\ IdleApp
NextP ==
    \/ \E file \in Files : LoadProject(file)
    \/ \E i \in 1..MaxPending : TextResolves(i) \/ TextRejects(i)
    \/ PerformIntegrityCheck
    \/ IntegrityTimer
    \/ ExportProjectJSON
    \/ ExportIntegrityReportJSON
    \/ ExportIntegrityReportCSV
SpecApp == InitP /\ [][NextP]_vars

InitU == IdleParser /\ IdleConvert /\ IdleGantt /\ InitUtilization /\ IdleApp
NextU == GetResourceUtilization
SpecUtilization == InitU /\ [][NextU]_vars

(***************************************************************************)
(* Schedules with dangling references: Y and Z are the ids of no activity, *)
(* R9 is the id of no resource                                             *)
(***************************************************************************)
Named(activity) ==
    [task_name |-> Str("Task " \o activity.task_id.s),
     task_code |-> Str("T-" \o activity.task_id.s)] @@ activity

DanglingRelationships ==
    {Relationship("A", "B", "PR_SS", 0), Relationship("A", "B", "PR_FS", 0 - 8),
     Relationship("Z", "A", "", 0 - 8), Relationship("Z", "A", "PR_FS", 0),
     Relationship("A", "Z", "PR_FS", 8), Relationship("B", "Z", "PR_FF", 0),
     Relationship("Z", "Y", "PR_SS", 8)}

DanglingAssignments ==
    {<<>>, <<Assignment("A", "R1", 70)>>, <<Assignment("Z", "R1", 5)>>,
     <<Assignment("A", "R9", 30)>>,
     <<Assignment("A", "R1", 70), Assignment("Z", "R1", 5)>>,
     <<Assignment("Z", "R9", 5), Assignment("B", "R1", 30)>>,
     <<Assignment("A", "R1", 70), Assignment("Z", "R1", 5),
       Assignment("A", "R9", 30)>>}

DanglingSchedules(maxRels) ==
    {Schedule(<<Named(WithId(PlainActivity, "A")),
                Named(WithId([PlainActivity EXCEPT !.early_start_date = DateV(7),
                                                   !.early_end_date = DateV(14)],
                             "B"))>>,
              rels, ars) :
        rels \in SeqsUpTo(DanglingRelationships, maxRels),
        ars \in DanglingAssignments}

\* the schedule in the Reader and loaded into the application
InitDangling ==
    /\ \E rd \in DanglingSchedules(MaxRels) :
          reader = rd /\ AppIs(LoadParsed(NewApp, rd))
    /\ nparses = 0
    /\ IdleCurve
    /\ IdleTasks

InitD == IdleParser /\ IdleConvert /\ IdleGantt /\ InitDangling
NextD ==
    \/ RunAssessment
    \/ GetResourceUtilization
    \/ \E resourceId \in {Str("R1"), Str("R9")} : GetResourceCurve(resourceId)
SpecDangling == InitD /\ [][NextD]_vars

(***************************************************************************)
(* Schedules of three activities, each a milestone, an activity with work  *)
(* or an activity without a duration, and relationships between them       *)
(***************************************************************************)
WithoutDuration ==
    [f \in DOMAIN PlainActivity \ {"target_drtn_hr_cnt"} |-> PlainActivity[f]]

\* finish-to-start relationships between A, B and C, and one from the
\* unknown Z
LogicRelationships ==
    {Relationship(e[1], e[2], "PR_FS", 0) :
        e \in {p \in {"A", "B", "C"} \X {"A", "B", "C"} : p[1] # p[2]}}
    \cup {Relationship("Z", "A", "PR_FS", 0)}

LogicSchedules(maxRels) ==
    {Schedule(<<WithId(a, "A"), WithId(b, "B"), WithId(c, "C")>>, rels, <<>>) :
        a \in {Milestone, PlainActivity, WithoutDuration},
        b \in {Milestone, PlainActivity, WithoutDuration},
        c \in {Milestone, PlainActivity, WithoutDuration},
        rels \in SeqsUpTo(LogicRelationships, maxRels)}

InitLogic ==
    /\ \E rd \in LogicSchedules(MaxRels) : AppIs(LoadParsed(NewApp, rd))
    /\ IdleTasks

InitL == IdleParser /\ IdleConvert /\ IdleGantt /\ IdleReader /\ IdleCurve /\ InitLogic
NextL == RunAssessment
SpecLogic == InitL /\ [][NextL]_vars

(***************************************************************************)
(* Schedules of two activities and n relationships from A to B, k of which *)
(* are not finish-to-start.  The others name the type PR_FS, leave the     *)
(* cell empty or lack the column.                                          *)
(***************************************************************************)
WithoutType(rel) == [f \in DOMAIN rel \ {"pred_type"} |-> rel[f]]

NonFsTypes == <<"PR_SS", "PR_FF", "PR_SF">>
FsTypes == <<"PR_FS", "", "none">>

TypedRelationship(i, type) ==
    LET rel == [Relationship("A", "B", type, 0) EXCEPT
                    !.task_pred_id = Str("AB" \o ToString(i))]
    IN  IF type = "none" THEN WithoutType(rel) ELSE rel

\* k relationships (all, when k > n) that are not finish-to-start, before or
\* after those that are; offset selects the type of the first of each kind
TypedRelationships(n, k, offset, nonFsFirst) ==
    [i \in 1..n |->
        LET nonFs == IF nonFsFirst THEN i <= k ELSE i > n - k
        IN  TypedRelationship(i,
                IF nonFs THEN NonFsTypes[((i + offset) % 3) + 1]
                ELSE FsTypes[((i + offset) % 3) + 1])]

TypedSchedules(maxRels) ==
    {Schedule(<<WithId(Milestone, "A"), WithId(PlainActivity, "B")>>,
              TypedRelationships(n, k, offset, nonFsFirst), <<>>) :
        n \in 0..maxRels, k \in 0..maxRels, offset \in 0..2,
        nonFsFirst \in BOOLEAN}

InitTypes ==
    /\ \E rd \in TypedSchedules(MaxTypedRels) :
          AppIs(LoadParsed(NewApp, rd))
    /\ IdleTasks

InitT == IdleParser /\ IdleConvert /\ IdleGantt /\ IdleReader /\ IdleCurve /\ InitTypes
NextT == RunAssessment
SpecTypes == InitT /\ [][NextT]_vars

(***************************************************************************)
(* Schedules of n activities, k of which have a hard constraint.  The      *)
(* others are as late or as soon as possible, have an empty constraint     *)
(* cell or lack the column.                                                *)
(***************************************************************************)
HardConstraintTypes == <<"CS_MSO", "CS_MEO", "CS_MSOA">>
SoftConstraintTypes == <<"CS_ALAP", "CS_ASAP", "", "none">>

ConstrainedActivity(i, type) ==
    LET a == WithId([PlainActivity EXCEPT !.cstr_type = Str(type)],
                    "T" \o ToString(i))
    IN  IF type = "none" THEN [f \in DOMAIN a \ {"cstr_type"} |-> a[f]] ELSE a

\* the first k activities (all, when k > n) have a hard constraint; offset
\* selects the type of the first of each kind
ConstrainedActivities(n, k, offset) ==
    [i \in 1..n |->
        ConstrainedActivity(i,
            IF i <= k THEN HardConstraintTypes[((i + offset) % 3) + 1]
            ELSE SoftConstraintTypes[((i + offset) % 4) + 1])]

ConstrainedSchedules(maxActs) ==
    {Schedule(ConstrainedActivities(n, k, offset), <<>>, <<>>) :
        n \in 0..maxActs, k \in 0..maxActs, offset \in 0..3}

InitConstraints ==
    /\ \E rd \in ConstrainedSchedules(MaxConstrained) :
          AppIs(LoadParsed(NewApp, rd))
    /\ IdleTasks

InitH == IdleParser /\ IdleConvert /\ IdleGantt /\ IdleReader /\ IdleCurve /\ InitConstraints
NextH == RunAssessment
SpecConstraints == InitH /\ [][NextH]_vars

(***************************************************************************)
(* GanttChart.  The items of the hierarchy are objects that refer to each  *)
(* other (children, parent), so they live in a heap: item i of a table of  *)
(* n WBS records is the object the first forEach creates for record i, and *)
(* item n + j the object created for activity j; 0 stands for null.  Of an *)
(* item the fields id, code, name, isWBS, level, children, parent,         *)
(* isExpanded and isVisible are kept; the dates, duration and progress     *)
(* that calculateWBSAggregates rolls up are not.                           *)
(***************************************************************************)
MaxWbs == 3         \* records of the WBS table of currentReader

\* wbsItems.get(key): Map.set replaces, so the Map holds the item of the
\* last record with that wbs_id; 0 when wbsItems.has(key) is false
wbsItems(wbsData, key) ==
    LET S == {i \in 1..Len(wbsData) : Get(wbsData[i], "wbs_id") = key}
    IN IF S = {} THEN 0 ELSE SetMax(S)

\* the item the first forEach creates for a WBS record
WbsItem(wbs) ==
    [id |-> Get(wbs, "wbs_id"), code |-> Get(wbs, "wbs_id"),
     name |-> Get(wbs, "wbs_name"), level |-> 0, children |-> <<>>,
     parent |-> 0, isExpanded |-> TRUE, isVisible |-> TRUE, isWBS |-> TRUE]

\* the item of an activity before it is linked
ActivityItem(activity) ==
    [id |-> Get(activity, "task_id"), code |-> Get(activity, "task_code"),
     name |-> Get(activity, "task_name"), level |-> 0, children |-> <<>>,
     parent |-> 0, isExpanded |-> TRUE, isVisible |-> TRUE, isWBS |-> FALSE]

\* the items as the first forEach and the activity loop create them
NewItems(wbsData, activities) ==
    [i \in 1..(Len(wbsData) + Len(activities)) |->
        IF i <= Len(wbsData)
        THEN WbsItem(wbsData[i])
        ELSE ActivityItem(activities[i - Len(wbsData)])]

\* parent.children.push(item); item.parent = parent;
\* item.level = parent.level + 1
LinkTo(g, item, parent) ==
    [g EXCEPT !.items[parent].children = Append(@, item),
              !.items[item].parent = parent,
              !.items[item].level = g.items[parent].level + 1]

AtRoot(g, item) == [g EXCEPT !.rootItems = Append(@, item)]

\* the second forEach of buildHierarchy, from record i on
RECURSIVE LinkWbs(_, _, _)
LinkWbs(g, wbsData, i) ==
    IF i > Len(wbsData) THEN g
    ELSE LET wbs == wbsData[i]
             wbsItem == wbsItems(wbsData, Get(wbs, "wbs_id"))
             parent == wbsItems(wbsData, Get(wbs, "parent_wbs_id"))
         IN LinkWbs(IF Truthy(Get(wbs, "parent_wbs_id")) /\ parent # 0
                    THEN LinkTo(g, wbsItem, parent)
                    ELSE AtRoot(g, wbsItem),
                    wbsData, i + 1)

\* activities.forEach of buildHierarchy, from activity j on
RECURSIVE LinkActivities(_, _, _, _)
LinkActivities(g, wbsData, activities, j) ==
    IF j > Len(activities) THEN g
    ELSE LET activity == activities[j]
             item == Len(wbsData) + j
             wbsParent == wbsItems(wbsData, Get(activity, "wbs_id"))
         IN LinkActivities(IF Truthy(Get(activity, "wbs_id")) /\ wbsParent # 0
                           THEN LinkTo(g, item, wbsParent)
                           ELSE AtRoot(g, item),
                           wbsData, activities, j + 1)

\* A recursion over children that is deeper than the number of items is on
\* an item for the second time with the heap it had the first time, so it
\* never returns: the engine ends it with a RangeError when the call stack
\* is full.
CallStack(g) == Len(g.items) + 1

\* calculateForWBS(wbsItem): TRUE when the recursion returns
RECURSIVE calculateForWBS(_, _, _)
calculateForWBS(g, wbsItem, depth) ==
    /\ depth <= CallStack(g)
    /\ \A k \in 1..Len(g.items[wbsItem].children) :
          LET child == g.items[wbsItem].children[k]
          IN g.items[child].isWBS => calculateForWBS(g, child, depth + 1)

\* calculateWBSAggregates(wbsItems): from every item of the Map without a
\* parent
calculateWBSAggregates(g, wbsData) ==
    \A i \in 1..Len(wbsData) :
        LET wbsItem == wbsItems(wbsData, Get(wbsData[i], "wbs_id"))
        IN g.items[wbsItem].parent = 0 => calculateForWBS(g, wbsItem, 1)

Overflow(g) == [g |-> g, items |-> <<>>, overflow |-> TRUE]
Returned(g, items) == [g |-> g, items |-> items, overflow |-> FALSE]

\* filterWBSRecursive(items): items.filter from position k on, kept being
\* the items the callback has accepted so far
RECURSIVE filterWBSRecursive(_, _, _, _, _)
filterWBSRecursive(g, items, k, kept, depth) ==
    IF depth > CallStack(g) THEN Overflow(g)
    ELSE IF k > Len(items) THEN Returned(g, kept)
    ELSE LET item == items[k]
         IN IF g.items[item].isWBS
            THEN LET r == filterWBSRecursive(g, g.items[item].children, 1,
                                             <<>>, depth + 1)
                     filtered == [r.g EXCEPT !.items[item].children = r.items]
                 IN IF r.overflow THEN r
                    ELSE filterWBSRecursive(filtered, items, k + 1,
                            IF r.items = <<>> THEN kept
                            ELSE Append(kept, item), depth)
            ELSE filterWBSRecursive(g, items, k + 1, Append(kept, item),
                                    depth)

filterEmptyWBS_KeepsAll(g) == Returned(g, g.rootItems)

\* filterEmptyWBS(rootItems, wbsItems): rootItems is refilled in place
filterEmptyWBS(g) ==
    LET r == filterWBSRecursive(g, g.rootItems, 1, <<>>, 1)
    IN IF r.overflow THEN r
       ELSE Returned([r.g EXCEPT !.rootItems = r.items], r.items)

\* localeCompare of the codes and names in use, as the rank in their order
Collation == <<"", "A", "B", "C", "T1", "T2", "T3", "Z">>
Rank(v) ==
    IF v.t = "string" /\ v.s \in Range(Collation)
    THEN CHOOSE i \in 1..Len(Collation) : Collation[i] = v.s
    ELSE 0

\* the comparator of sortHierarchy is negative: a sorts before b
SortsBefore(a, b) ==
    IF a.isWBS /\ ~b.isWBS THEN TRUE
    ELSE IF ~a.isWBS /\ b.isWBS THEN FALSE
    ELSE IF Truthy(a.code) /\ Truthy(b.code) THEN Rank(a.code) < Rank(b.code)
    ELSE Rank(a.name) < Rank(b.name)

\* Array.prototype.sort is stable: x goes in front of the first item it
\* sorts before
RECURSIVE InsertItem(_, _, _)
InsertItem(g, sorted, x) ==
    IF sorted = <<>> THEN <<x>>
    ELSE IF SortsBefore(g.items[x], g.items[Last(sorted)])
    THEN Append(InsertItem(g, Front(sorted), x), Last(sorted))
    ELSE Append(sorted, x)

RECURSIVE SortItems(_, _)
SortItems(g, items) ==
    IF items = <<>> THEN <<>>
    ELSE InsertItem(g, SortItems(g, Front(items)), Last(items))

\* the array sortHierarchy is called on: rootItems, or the children of owner
ArrayOf(g, owner) ==
    IF owner = 0 THEN g.rootItems ELSE g.items[owner].children

SetArray(g, owner, items) ==
    IF owner = 0 THEN [g EXCEPT !.rootItems = items]
    ELSE [g EXCEPT !.items[owner].children = items]

\* sortHierarchy(items): the forEach from position k on, after items.sort
RECURSIVE SortChildren(_, _, _, _)
sortHierarchy(g, owner, depth) ==
    IF depth > CallStack(g) THEN Overflow(g)
    ELSE SortChildren(SetArray(g, owner, SortItems(g, ArrayOf(g, owner))),
                      owner, 1, depth)

SortChildren(g, owner, k, depth) ==
    IF k > Len(ArrayOf(g, owner)) THEN Returned(g, ArrayOf(g, owner))
    ELSE LET item == ArrayOf(g, owner)[k]
         IN IF Len(g.items[item].children) > 0
            THEN LET r == sortHierarchy(g, item, depth + 1)
                 IN IF r.overflow THEN r
                    ELSE SortChildren(r.g, owner, k + 1, depth)
            ELSE SortChildren(g, owner, k + 1, depth)

\* buildHierarchy(activities, relationships): the heap and rootItems, or the
\* RangeError of a recursion that does not return
buildHierarchy(rd, activities) ==
    LET wbsData == rd.wbs
        created == [items |-> NewItems(wbsData, activities),
                    rootItems |-> <<>>]
        linked == LinkActivities(LinkWbs(created, wbsData, 1), wbsData,
                                 activities, 1)
        filtered == filterEmptyWBS(linked)
        sorted == sortHierarchy(filtered.g, 0, 1)
    IN IF ~calculateWBSAggregates(linked, wbsData) THEN Overflow(linked)
       ELSE IF filtered.overflow THEN filtered
       ELSE sorted

\* flattenHierarchy(items, result): the forEach from position k on
RECURSIVE flattenHierarchy(_, _, _, _, _)
flattenHierarchy(g, items, k, result, depth) ==
    IF depth > CallStack(g) THEN Overflow(g)
    ELSE IF k > Len(items) THEN Returned(g, result)
    ELSE LET item == items[k]
             pushed == Append(result, item)
         IN IF Len(g.items[item].children) > 0
            THEN LET r == flattenHierarchy(g, g.items[item].children, 1,
                                           pushed, depth + 1)
                 IN IF r.overflow THEN r
                    ELSE flattenHierarchy(g, items, k + 1, r.items, depth)
            ELSE flattenHierarchy(g, items, k + 1, pushed, depth)

allItems(g) == flattenHierarchy(g, g.rootItems, 1, <<>>, 1).items

\* this.expandedItems.has(item.id) || item.isExpanded
Expanded(g, expanded, item) ==
    g.items[item].id \in expanded \/ g.items[item].isExpanded

\* traverse(items) of getFullVisibleItems, from position k on
RECURSIVE traverse(_, _, _, _, _)
traverse(g, expanded, items, k, result) ==
    IF k > Len(items) THEN result
    ELSE LET item == items[k]
             pushed == Append(result, item)
         IN IF ~g.items[item].isVisible
            THEN traverse(g, expanded, items, k + 1, result)
            ELSE IF Len(g.items[item].children) > 0
                    /\ Expanded(g, expanded, item)
            THEN traverse(g, expanded, items, k + 1,
                          traverse(g, expanded, g.items[item].children, 1,
                                   pushed))
            ELSE traverse(g, expanded, items, k + 1, pushed)

getFullVisibleItems(g, expanded) ==
    IF g = Null THEN <<>> ELSE traverse(g, expanded, g.rootItems, 1, <<>>)

\* initializeGantt() past its guards: the timer callback runs
\* prepareGanttData, and its catch clause shows the error
InitializeGantt ==
    /\ currentReader # Null
    /\ Len(allActivities) > 0
    /\ LET built == buildHierarchy(currentReader, allActivities)
       IN IF built.overflow
          THEN ganttError' = TRUE /\ UNCHANGED ganttData
          ELSE ganttData' = built.g /\ UNCHANGED ganttError
    /\ UNCHANGED expandedItems
    /\ UNCHANGED <<parserVars, convertVars, readerVars, curveVars, appVars,
                   taskVars>>

\* the items of the flattened hierarchy that have children
WithChildren(g) ==
    {i \in Range(allItems(g)) : Len(g.items[i].children) > 0}

SetExpanded(g, S, flag) ==
    [g EXCEPT !.items = [i \in DOMAIN @ |->
        IF i \in S THEN [@[i] EXCEPT !.isExpanded = flag] ELSE @[i]]]

ExpandAll ==
    /\ ganttData # Null
    /\ expandedItems' = expandedItems
            \cup {ganttData.items[i].id : i \in WithChildren(ganttData)}
    /\ ganttData' = SetExpanded(ganttData, WithChildren(ganttData), TRUE)
    /\ UNCHANGED ganttError
    /\ UNCHANGED <<parserVars, convertVars, readerVars, curveVars, appVars,
                   taskVars>>

CollapseAll ==
    /\ ganttData # Null
    /\ expandedItems' = {}
    /\ ganttData' = SetExpanded(ganttData, Range(allItems(ganttData)), FALSE)
    /\ UNCHANGED ganttError
    /\ UNCHANGED <<parserVars, convertVars, readerVars, curveVars, appVars,
                   taskVars>>

\* allItems.find(i => i.id === taskId): 0 when there is none
FindItem(g, taskId) ==
    LET k == FindIndex(allItems(g), LAMBDA i : g.items[i].id = taskId)
    IN IF k = 0 THEN 0 ELSE allItems(g)[k]

ToggleExpand(taskId) ==
    /\ ganttData # Null
    /\ LET item == FindItem(ganttData, taskId)
       IN /\ item # 0
          /\ Len(ganttData.items[item].children) > 0
          /\ IF taskId \in expandedItems
             THEN /\ expandedItems' = expandedItems \ {taskId}
                  /\ ganttData' = SetExpanded(ganttData, {item}, FALSE)
             ELSE /\ expandedItems' = expandedItems \cup {taskId}
                  /\ ganttData' = SetExpanded(ganttData, {item}, TRUE)
    /\ UNCHANGED ganttError
    /\ UNCHANGED <<parserVars, convertVars, readerVars, curveVars, appVars,
                   taskVars>>

(***************************************************************************)
(* The Gantt chart of a loaded project: the WBS tables of up to MaxWbs     *)
(* records over three ids, whatever their parent links and with repeated   *)
(* ids, and activities with and without a WBS record of their wbs_id.      *)
(***************************************************************************)
WbsIds == {"A", "B", "C"}

WbsRecord(id, parentId) ==
    [wbs_id |-> Str(id), wbs_name |-> Str(id), parent_wbs_id |-> Str(parentId)]

WbsRecords == {WbsRecord(id, p) : id \in WbsIds, p \in WbsIds \cup {""}}

\* the ids are named in the order of their first appearance in the table:
\* every other table is one of these with its ids renamed
IdNumber(wbs) == Rank(wbs.wbs_id) - 1

NamedInOrder(wbsData) ==
    \A k \in 1..Len(wbsData) :
        \/ IdNumber(wbsData[k]) = 1
        \/ \E j \in 1..(k - 1) :
              IdNumber(wbsData[j]) >= IdNumber(wbsData[k]) - 1

WbsTables(n) ==
    {wbsData \in UNION {[1..k -> WbsRecords] : k \in 0..n} :
        NamedInOrder(wbsData)}

GanttActivity(id, wbsId) ==
    [task_id |-> Str(id), proj_id |-> Str("P1"), task_code |-> Str(id),
     task_name |-> Str(id), wbs_id |-> Str(wbsId)]

GanttActivityLists ==
    {<<GanttActivity("T1", "A")>>,
     <<GanttActivity("T2", "B"), GanttActivity("T1", "")>>,
     <<GanttActivity("T3", "C"), GanttActivity("T2", "Z"),
       GanttActivity("T1", "A")>>}

GanttReader(wbsData, activities) ==
    [NewReader EXCEPT !.projects = <<[proj_id |-> Str("P1")]>>,
                      !.wbs = wbsData,
                      !.activities = activities]

InitGantt ==
    /\ \E wbsData \in WbsTables(MaxWbs), activities \in GanttActivityLists :
          AppIs(LoadParsed(NewApp, GanttReader(wbsData, activities)))
    /\ IdleTasks
    /\ IdleGantt

InitG == IdleParser /\ IdleConvert /\ IdleReader /\ IdleCurve /\ InitGantt
NextG ==
    \/ InitializeGantt
    \/ ExpandAll
    \/ CollapseAll
    \/ \E id \in WbsIds : ToggleExpand(Str(id))
SpecGantt == InitG /\ [][NextG]_vars

InitS == IdleParser /\ IdleConvert /\ IdleGantt /\ InitScenario
NextS == GetCriticalActivities \/ GetSummaryStats \/ RunAssessment
SpecScenario == InitS /\ [][NextS]_vars

(***************************************************************************)
(* Properties of the tokenizer, the projector and the Reader               *)
(***************************************************************************)
\* the line matches one of the three markers of parseContent
MatchesMarker(ln) ==
    StartsWith(ln, "%T") \/ StartsWith(ln, "%F") \/ StartsWith(ln, "%R")

\* C4: after any sequence of parseContent calls on one Reader, each of the
\* six collections holds exactly the typed records of its table in the text
\* parsed last, and is empty when that text has no such table.
CollectionsReflectLastParse ==
    \A c \in Collections :
        reader[c] = IF TableOf[c] \in DOMAIN reader.rawData
                    THEN TypedRecords(reader.rawData, TableOf[c])
                    ELSE <<>>

\* C5: a data row that is stored gives a record with every field of the
\* active field list, the fields without a positional value being "".
RowRecordHasEveryField ==
    (StartsWith(line, "%R") /\ RowAccepted(parserState)) =>
        LET rec == Last(data[currentTable])
        IN  /\ DOMAIN rec = Range(currentFields)
            /\ \A i \in 1..Len(currentFields) :
                  (i > Len(line.cells)
                   /\ \A j \in 1..Len(line.cells) :
                         currentFields[j] # currentFields[i])
                  => rec[currentFields[i]] = ""

\* C6: parseContent never throws; a data row that arrives while no table is
\* active adds no record; a line that matches no marker changes neither the
\* table map nor the active table nor the active field list.
ParseNeverThrows ==
    /\ [](threw = FALSE)
    /\ [][(nlines' = nlines + 1 /\ StartsWith(line', "%R")
           /\ currentTable = NoTable) => data' = data]_vars
    /\ [][(nlines' = nlines + 1 /\ ~MatchesMarker(line'))
          => UNCHANGED <<data, currentTable, currentFields>>]_vars

\* a data row has arrived after a field list and before any table line
RowWithoutTableSeen ==
    /\ StartsWith(line, "%R")
    /\ currentTable = NoTable
    /\ Len(currentFields) > 0
    /\ data = ParserStart.data

\* C7: convertTypes under a schema: a 'number' field whose raw value is empty
\* or not numeric becomes 0 and is never NaN; a 'date' field whose raw value
\* is empty or unparsable becomes null and is never an invalid date; a
\* 'boolean' field is true exactly for "Y", "true", "1"; a field the schema
\* does not name keeps its raw string.
ConvertTypesCoerces ==
    converted.returned =>
        /\ DOMAIN converted.value = DOMAIN record
        /\ \A f \in DOMAIN record :
              LET raw == record[f]
                  out == converted.value[f]
                  type == IF f \in DOMAIN tableSchema THEN tableSchema[f]
                          ELSE "none"
              IN  /\ type = "number" =>
                        /\ out.t = "number"
                        /\ raw \notin DOMAIN NumericLiterals => out = Num(0)
                        /\ raw \in DOMAIN NumericLiterals
                              => out = Num(NumericLiterals[raw])
                  /\ type = "date" =>
                        /\ out.t \in {"date", "null"}
                        /\ raw \notin DOMAIN DateLiterals => out = Null
                        /\ raw \in DOMAIN DateLiterals
                              => out = DateV(DateLiterals[raw])
                  /\ type = "boolean" =>
                        out = Bool(raw \in {"Y", "true", "1"})
                  /\ type \in {"none", "string"} => out = Str(raw)

\* a non-numeric string was converted under a 'number' declaration, next to
\* a field the schema does not name
NonNumericConverted ==
    /\ converted.returned
    /\ "f_num" \in DOMAIN tableSchema
    /\ "f_num" \in DOMAIN record
    /\ record["f_num"] = "abc"
    /\ "f_other" \in DOMAIN record

(***************************************************************************)
(* Properties of the resource curve                                        *)
(***************************************************************************)
\* the date an activity is scheduled by: the actual one, else the early one
UsableDate(activity, actual, early) ==
    IF Get(activity, actual).t = "date" THEN Get(activity, actual)
    ELSE Get(activity, early)

\* The spans the curve of resource r has to allocate: one for each
\* assignment of r whose activity is known and has a usable start and end.
AssignedSpans(r) ==
    LET ars == reader.activityResources
        known(i) == \E j \in 1..Len(reader.activities) :
                        reader.activities[j].task_id = ars[i].task_id
        act(i) == reader.activities[
                      CHOOSE j \in 1..Len(reader.activities) :
                          /\ reader.activities[j].task_id = ars[i].task_id
                          /\ \A k \in 1..(j - 1) :
                                reader.activities[k].task_id # ars[i].task_id]
        start(i) == UsableDate(act(i), "act_start_date", "early_start_date")
        end(i) == UsableDate(act(i), "act_end_date", "early_end_date")
    IN  {[index |-> i, activityId |-> ars[i].task_id, startDate |-> start(i).n,
          endDate |-> end(i).n, targetQty |-> ars[i].target_qty.n] :
         i \in {k \in 1..Len(ars) :
                  /\ ars[k].rsrc_id = r
                  /\ known(k)
                  /\ start(k).t = "date"
                  /\ end(k).t = "date"}}

SameSpan(x, y) ==
    /\ x.activityId = y.activityId
    /\ x.startDate = y.startDate
    /\ x.endDate = y.endDate
    /\ x.targetQty = y.targetQty

\* the entries of all buckets of the returned curve that belong to a span
BucketEntries(sp) ==
    LET tbd == curve.value.timeBasedData
    IN  Concat([b \in 1..Len(tbd) |->
                   SelectSeq(tbd[b].activeActivities,
                             LAMBDA x : SameSpan(x, sp))])

\* what the buckets of the returned curve allocate to the spans equal to sp
\* is the target quantity of these spans, their overlap ratios summing to 1
SpanConserved(sp) ==
    LET entries == BucketEntries(sp)
        copies == Cardinality({o \in AssignedSpans(curve.value.resourceId) :
                                  SameSpan(o, sp)})
    IN  /\ FracSum([i \in 1..Len(entries) |-> entries[i].weeklyTargetQty])
              = Frac(copies * sp.targetQty, 1)
        /\ FracSum([i \in 1..Len(entries) |-> entries[i].overlapRatio])
              = Frac(copies, 1)

FourteenDayCurveReturned ==
    /\ curve.returned
    /\ curve.value.resourceId = Str("R1")
    /\ Len(reader.activityResources) = 1
    /\ \E sp \in AssignedSpans(Str("R1")) :
          sp.endDate - sp.startDate = 14 /\ sp.targetQty = 70

\* C2 as stated: such a curve has exactly two weekly buckets, of 35 each.
FourteenDaysGiveTwoBuckets ==
    FourteenDayCurveReturned =>
        LET tbd == curve.value.timeBasedData
        IN  /\ Len(tbd) = 2
            /\ \A b \in 1..Len(tbd) : tbd[b].weeklyTargetQty = Frac(35, 1)

\* C2 amended: such a curve has exactly three weekly buckets: two of 35
\* each (ratio 1/2), and a third one that starts at the activity's end and
\* lists the activity with ratio 0 and quantity 0.
FourteenDaysGiveThreeBuckets ==
    FourteenDayCurveReturned =>
        LET tbd == curve.value.timeBasedData
        IN  /\ Len(tbd) = 3
            /\ \A b \in 1..2 :
                  /\ tbd[b].weeklyTargetQty = Frac(35, 1)
                  /\ Len(tbd[b].activeActivities) = 1
                  /\ tbd[b].activeActivities[1].overlapRatio = Frac(1, 2)
            /\ tbd[3].weeklyTargetQty = Zero
            /\ Len(tbd[3].activeActivities) = 1
            /\ tbd[3].activeActivities[1].overlapRatio = Zero
            /\ tbd[3].date = tbd[3].activeActivities[1].endDate

(***************************************************************************)
(* Critical activities                                                     *)
(***************************************************************************)
\* the total float of an activity, in hours; a float the row does not carry
\* is 0, as every blank number is
FloatHours(a) ==
    IF "total_float_hr_cnt" \in DOMAIN a THEN a.total_float_hr_cnt.n ELSE 0

DrivingFlagSet(a) == a.driving_path_flag = Str("Y")

\* C8: getCriticalActivities returns exactly the activities whose total float
\* equals 0 or whose driving-path flag is set, in the order of the activity
\* list: an activity with float -5 and no flag is left out, an activity with
\* a nonzero float and the flag set is returned.
CriticalIsZeroFloatOrDriving ==
    critical.returned =>
        /\ critical.value =
              SelectSeq(reader.activities,
                        LAMBDA a : FloatHours(a) = 0 \/ DrivingFlagSet(a))
        /\ \A a \in Range(reader.activities) :
              /\ (FloatHours(a) < 0 /\ ~DrivingFlagSet(a))
                    => a \notin Range(critical.value)
              /\ (FloatHours(a) # 0 /\ DrivingFlagSet(a))
                    => a \in Range(critical.value)

\* a call on a schedule with a negative-float activity that is left out and
\* a driving activity with float that is returned
NegativeFloatLeftOutDrivingReturned ==
    /\ critical.returned
    /\ \E a \in Range(reader.activities) :
          /\ FloatHours(a) = 0 - 5 /\ ~DrivingFlagSet(a)
          /\ a \notin Range(critical.value)
    /\ \E a \in Range(critical.value) :
          FloatHours(a) = 40 /\ DrivingFlagSet(a)

(***************************************************************************)
(* The 14-point assessment                                                 *)
(***************************************************************************)
Assessed == integrityCheckResults # Null

PassedPoints ==
    Cardinality({i \in 1..Len(integrityCheckResults.points) :
                    integrityCheckResults.points[i].status = "pass"})

\* C9: the summary counts the points that passed, its score is 100 * passed
\* / 14 rounded to the nearest integer (halves upward), its grade is A from
\* 90, B from 80, C from 70, D from 60 and F below; 14 passes give 100 and A.
ScoreIsRoundedShareOfPasses ==
    Assessed =>
        LET summary == integrityCheckResults.summary
            passed == summary.passedPoints
            score == summary.score
        IN  /\ passed = PassedPoints
            /\ 2 * (100 * passed - 14 * score) <= 14
            /\ 2 * (100 * passed - 14 * score) > 0 - 14
            /\ summary.grade = (IF score >= 90 THEN "A"
                                ELSE IF score >= 80 THEN "B"
                                ELSE IF score >= 70 THEN "C"
                                ELSE IF score >= 60 THEN "D" ELSE "F")
            /\ PassedPoints = 14 => score = 100 /\ summary.grade = "A"

\* an assessment in which all 14 points pass
AllFourteenPass == Assessed /\ PassedPoints = 14

NoRelationships == currentReader # Null /\ currentReader.relationships = <<>>

\* C10: when the schedule has no relationship, points 2, 3 and 4 pass and
\* every percentage in their details is a number.
NoRelationshipsPassLeadsLagsTypes ==
    (Assessed /\ NoRelationships) =>
        \A i \in {2, 3, 4} :
            LET point == integrityCheckResults.points[i]
            IN  /\ point.number = i
                /\ point.status = "pass"
                /\ point.details.totalRelationships = 0
                /\ ~FracIsNaN(point.details.percentage)

\* an assessment of a schedule with activities and no relationship
AssessedWithoutRelationships ==
    Assessed /\ NoRelationships /\ Len(allActivities) > 0

(***************************************************************************)
(* The application model                                                   *)
(***************************************************************************)
\* the model one file gives: the first project of the file, its activities,
\* all assignments and their utilization; nothing when the file has no
\* project
ModelOfFile(rd) ==
    IF rd.projects = <<>>
    THEN [currentProject |-> Null, allActivities |-> <<>>,
          allAssignments |-> <<>>, resourceUtilization |-> NoUtilization]
    ELSE [currentProject |-> rd.projects[1],
          allActivities |->
              SelectSeq(rd.activities,
                        LAMBDA a : a.proj_id = rd.projects[1].proj_id),
          allAssignments |-> rd.activityResources,
          resourceUtilization |-> getResourceUtilization(rd)]

\* C3: whenever an operation can start, that is between any two steps of the
\* application, the project, the activities, the assignments and the
\* utilization are those of the file currentReader was parsed from (or all
\* are the constructor's, before the first file), whatever loads came before.
ModelIsOfOneFile ==
    IF currentReader = Null
    THEN /\ currentProject = Null /\ allActivities = <<>>
         /\ allAssignments = <<>> /\ resourceUtilization = NoUtilization
    ELSE LET m == ModelOfFile(currentReader)
         IN  /\ currentProject = m.currentProject
             /\ allActivities = m.allActivities
             /\ allAssignments = m.allAssignments
             /\ resourceUtilization = m.resourceUtilization

(***************************************************************************)
(* The file of two activities                                              *)
(***************************************************************************)
\* the Readers of the files with one project, no relationship, A with
\* duration 0 and no float stated, B with duration 40 and float 0
TwoActivityReaders ==
    {parseContent(NewReader, ScenarioText(order, "0", "", "40", "0", rels)) :
        order \in DOMAIN TaskColumns, rels \in {"none", "empty"}}

ActivityIdsOf(array) == [i \in 1..Len(array) |-> array[i].task_id.s]

ScenarioStatsAndPoints ==
    /\ stats.returned => stats.value.totalActivities = 2
    /\ Assessed =>
          /\ integrityCheckResults.points[1].status = "fail"
          /\ integrityCheckResults.points[7].status = "pass"
          /\ integrityCheckResults.points[6].status = "pass"

\* C11 as stated: for the file of A (duration 0, float not stated) and B
\* (duration 40, float 0), getCriticalActivities returns B alone, the
\* summary counts 2 activities, point 1 fails and points 6 and 7 pass.
ScenarioHasOneCriticalActivity ==
    reader \in TwoActivityReaders =>
        /\ critical.returned => ActivityIdsOf(critical.value) = <<"B">>
        /\ ScenarioStatsAndPoints

\* C11 amended: for that file getCriticalActivities returns both A, whose
\* unstated float is read as 0, and B; the summary counts 2 activities,
\* point 1 fails and points 6 and 7 pass.
ScenarioHasTwoCriticalActivities ==
    reader \in TwoActivityReaders =>
        /\ critical.returned => ActivityIdsOf(critical.value) = <<"A", "B">>
        /\ ScenarioStatsAndPoints

\* the file was parsed and loaded, and all three operations have run
ScenarioAnalysed ==
    /\ reader \in TwoActivityReaders
    /\ currentReader = reader
    /\ critical.returned /\ stats.returned /\ Assessed

(***************************************************************************)
(* The points of the assessment                                            *)
(***************************************************************************)
Statuses == {"pass", "warning", "fail"}

\* C12: the assessment has exactly 14 points, numbered 1 to 14 in this
\* order, each with status pass, warning or fail, and the passed, failed
\* and warning counts of the summary sum to totalPoints, which is 14.
FourteenPointsInOrder ==
    Assessed =>
        LET points == integrityCheckResults.points
            summary == integrityCheckResults.summary
        IN  /\ Len(points) = 14
            /\ \A i \in 1..Len(points) :
                  points[i].number = i /\ points[i].status \in Statuses
            /\ summary.totalPoints = 14
            /\ summary.passedPoints + summary.failedPoints
                  + summary.warningPoints = summary.totalPoints

\* an assessment with points of all three statuses
AllThreeStatusesSeen ==
    /\ Assessed
    /\ \A st \in Statuses :
          \E i \in 1..Len(integrityCheckResults.points) :
              integrityCheckResults.points[i].status = st

(***************************************************************************)
(* Resource utilization                                                    *)
(***************************************************************************)
\* the key of the entry of an assignment: its resource id as a property name
EntryKeyOf(ar) == IF "rsrc_id" \in DOMAIN ar THEN ar.rsrc_id.s ELSE "undefined"

TargetQtyOf(ar) == IF "target_qty" \in DOMAIN ar THEN ar.target_qty.n ELSE 0

KnownActivity(id) == \E i \in 1..Len(allActivities) : allActivities[i].task_id = id
KnownTask(id) == \E i \in 1..Len(reader.activities) : reader.activities[i].task_id = id

\* the drill-down lists of points 2, 3 and 4 of the last assessment
DrillDownLists ==
    <<integrityCheckResults.points[2].failedItems.leadRelationships,
      integrityCheckResults.points[3].failedItems.lagRelationships,
      integrityCheckResults.points[4].failedItems.nonFsRelationships>>

\* the name a drill-down entry must show for the endpoint with the id
EndpointName(id) ==
    IF KnownActivity(id)
    THEN (CHOOSE a \in Range(allActivities) : a.task_id = id).task_name
    ELSE Str("Unknown")

\* the Reader without the assignments whose activity is unknown
WithoutDanglingAssignments(rd) ==
    [rd EXCEPT !.activityResources =
        SelectSeq(@, LAMBDA ar : \E i \in 1..Len(rd.activities) :
                                    rd.activities[i].task_id = ar.task_id)]

AssessmentOfLoadedFile == runDCMA14Assessment(allActivities, currentReader)

\* C15: a report that exportIntegrityReportJSON or exportIntegrityReportCSV
\* emits holds the points of the assessment of the file that is loaded when
\* it is emitted, whatever loads and checks came before.
ReportIsOfLoadedFile ==
    [][/\ ExportIntegrityReportJSON /\ exported'.done
          => exported'.value.assessment.points = AssessmentOfLoadedFile.points
       /\ ExportIntegrityReportCSV /\ exported'.done
          => \A i \in 1..Len(exported'.value.csvData) :
                exported'.value.csvData[i].Status
                    = AssessmentOfLoadedFile.points[i].status]_vars

(***************************************************************************)
(* Checks without anything to count                                        *)
(***************************************************************************)
\* how many records check i relates its count to
Denominator(i) ==
    CASE i \in {2, 3, 4} -> Len(currentReader.relationships)
      [] i = 10 -> integrityCheckResults.points[10].details.workActivities
      [] i = 11 -> integrityCheckResults.points[11].details.activeActivities
      [] OTHER -> Len(allActivities)

\* no number of the details or of the message of the point is NaN
WithoutNaN(point) ==
    /\ "percentage" \in DOMAIN point.details
          => ~FracIsNaN(point.details.percentage)
    /\ "message" \in DOMAIN point
          => \A k \in 1..Len(point.message) : ~FracIsNaN(point.message[k])

\* C16: a check among 1-6 and 8-12 that has nothing to relate its count to
\* (no relationships, no activities, no activities with work, no active
\* activities) has status 'pass', and no number of its details or message
\* is NaN.
ZeroDenominatorPasses ==
    Assessed =>
        \A i \in (1..6) \cup (8..12) :
            Denominator(i) = 0 =>
                /\ integrityCheckResults.points[i].status = "pass"
                /\ WithoutNaN(integrityCheckResults.points[i])

(***************************************************************************)
(* Point 1, Logic                                                          *)
(***************************************************************************)
HasPredecessor(a) ==
    \E i \in 1..Len(currentReader.relationships) :
        currentReader.relationships[i].task_id = a.task_id

HasSuccessor(a) ==
    \E i \in 1..Len(currentReader.relationships) :
        currentReader.relationships[i].pred_task_id = a.task_id

\* the duration is 0 or there is none
ZeroOrAbsentDuration(a) ==
    "target_drtn_hr_cnt" \in DOMAIN a => a.target_drtn_hr_cnt = Num(0)

PositiveDuration(a) ==
    "target_drtn_hr_cnt" \in DOMAIN a /\ a.target_drtn_hr_cnt.t = "number"
    /\ a.target_drtn_hr_cnt.n > 0

Activities == Range(allActivities)

LogicPassNeedsEveryWorkActivityLinked ==
    (Assessed /\ integrityCheckResults.points[1].status = "pass") =>
        \A a \in Activities :
            PositiveDuration(a) => HasPredecessor(a) /\ HasSuccessor(a)

(***************************************************************************)
(* The statuses a point can have                                           *)
(***************************************************************************)
NegativeFloat(a) ==
    "total_float_hr_cnt" \in DOMAIN a /\ a.total_float_hr_cnt.t = "number"
    /\ a.total_float_hr_cnt.n < 0

\* C19: points 3 and 12 never have status 'fail'; points 7 and 9 never
\* have status 'warning', and point 7 passes exactly when no activity has a
\* float below 0; points 13 and 14 pass with details.applicable = false.
PointsOfTwoStatuses ==
    Assessed =>
        LET points == integrityCheckResults.points
        IN  /\ points[3].status \in {"pass", "warning"}
            /\ points[12].status \in {"pass", "warning"}
            /\ points[7].status \in {"pass", "fail"}
            /\ points[9].status \in {"pass", "fail"}
            /\ points[7].status = "pass" <=>
                  \A a \in Activities : ~NegativeFloat(a)
            /\ \A i \in {13, 14} :
                  /\ points[i].status = "pass"
                  /\ points[i].details.applicable = FALSE

\* an assessment of an activity with negative float and more lags than a
\* tenth of the relationships
NegativeFloatAndLagsAssessed ==
    /\ Assessed
    /\ integrityCheckResults.points[3].status = "warning"
    /\ integrityCheckResults.points[7].status = "fail"
    /\ integrityCheckResults.points[12].status = "warning"
    /\ \E a \in Activities : NegativeFloat(a)

(***************************************************************************)
(* Point 4, Relationship Types                                             *)
(***************************************************************************)
\* the type is missing, empty or PR_FS
IsFinishToStart(rel) ==
    "pred_type" \in DOMAIN rel => rel.pred_type \in {Null, Str(""), Str("PR_FS")}

\* C20: point 4 counts the relationships whose type is missing, empty or
\* PR_FS as finish-to-start; these and the others it lists add up to all
\* relationships; when there are relationships, its status is 'pass' when
\* the finish-to-start share is at least 90 %, 'warning' when it is at least
\* 80 % and below 90 %, and 'fail' when it is below 80 %.
RelationshipTypesStatusIsByShare ==
    Assessed =>
        LET rels == currentReader.relationships
            count == Len(rels)
            fs == Cardinality({i \in 1..count : IsFinishToStart(rels[i])})
            point == integrityCheckResults.points[4]
        IN  /\ point.details.fsRelationships = fs
            /\ point.details.totalRelationships = count
            /\ fs + Len(point.failedItems.nonFsRelationships) = count
            /\ count > 0 =>
                  /\ point.status = "pass" <=> 100 * fs >= 90 * count
                  /\ point.status = "warning" <=>
                        (100 * fs >= 80 * count /\ 100 * fs < 90 * count)
                  /\ point.status = "fail" <=> 100 * fs < 80 * count

\* point 4 warned for a share of exactly 80 % of finish-to-start
\* relationships, some without a type and some with an empty type
RelationshipTypesWarned ==
    /\ Assessed
    /\ integrityCheckResults.points[4].status = "warning"
    /\ 5 * integrityCheckResults.points[4].details.fsRelationships
          = 4 * integrityCheckResults.points[4].details.totalRelationships
    /\ \E i \in 1..Len(currentReader.relationships) :
          "pred_type" \notin DOMAIN currentReader.relationships[i]
    /\ \E i \in 1..Len(currentReader.relationships) :
          "pred_type" \in DOMAIN currentReader.relationships[i]
          /\ currentReader.relationships[i].pred_type = Str("")

(***************************************************************************)
(* Point 5, Hard Constraints                                               *)
(***************************************************************************)
\* the status for a count of constrained activities among all activities
StatusOfConstrained(count) ==
    IF count = 0 THEN "pass"
    ELSE IF 100 * count <= 5 * Len(allActivities) THEN "warning" ELSE "fail"

\* the constraint type is neither CS_ALAP nor CS_ASAP; an activity without
\* a constraint type has neither
NeitherLateNorSoon(a) ==
    "cstr_type" \in DOMAIN a => a.cstr_type \notin {Str("CS_ALAP"), Str("CS_ASAP")}

HasConstraintType(a) ==
    "cstr_type" \in DOMAIN a /\ a.cstr_type \notin {Null, Str("")}

\* C21 as stated: point 5 counts the activities whose constraint type is
\* neither CS_ALAP nor CS_ASAP; it passes when the count is 0, warns when
\* the count is at most 5 % of the activities and fails otherwise.
HardConstraintsCountEveryOtherType ==
    Assessed =>
        LET count == Cardinality({i \in 1..Len(allActivities) :
                                     NeitherLateNorSoon(allActivities[i])})
            point == integrityCheckResults.points[5]
        IN  /\ point.details.constrainedActivities = count
            /\ point.status = StatusOfConstrained(count)

\* C21 amended: point 5 counts the activities that have a constraint type
\* which is neither CS_ALAP nor CS_ASAP; an activity whose constraint type
\* is empty or missing is not counted.  It passes when the count is 0,
\* warns when the count is at most 5 % of the activities and fails
\* otherwise.
HardConstraintsCountStatedOtherType ==
    Assessed =>
        LET count == Cardinality({i \in 1..Len(allActivities) :
                                     /\ HasConstraintType(allActivities[i])
                                     /\ NeitherLateNorSoon(allActivities[i])})
            point == integrityCheckResults.points[5]
        IN  /\ point.details.constrainedActivities = count
            /\ point.details.totalActivities = Len(allActivities)
            /\ point.status = StatusOfConstrained(count)

\* point 5 warned for one constrained activity among twenty, some of which
\* have an empty constraint type and some none
HardConstraintsWarned ==
    /\ Assessed
    /\ integrityCheckResults.points[5].status = "warning"
    /\ integrityCheckResults.points[5].details.constrainedActivities = 1
    /\ \E a \in Activities : "cstr_type" \notin DOMAIN a
    /\ \E a \in Activities : "cstr_type" \in DOMAIN a /\ a.cstr_type = Str("")

(***************************************************************************)
(* The buckets of the resource curve                                       *)
(***************************************************************************)
Spans == AssignedSpans(curve.value.resourceId)
EarliestStart == SetMin({sp.startDate : sp \in Spans})
LatestEnd == SetMax({sp.endDate : sp \in Spans})

\* C22: the buckets of a non-empty timeBasedData are in strictly increasing
\* order of date; the first starts at the earliest start of the contributing
\* activities; each is 7 days long and starts where the one before ends;
\* there is one for every 7-day step that starts no later than the latest
\* end, so the last may extend past that end.
BucketsAreConsecutiveWeeks ==
    (curve.returned /\ curve.value.timeBasedData # <<>>) =>
        LET tbd == curve.value.timeBasedData
        IN  /\ Spans # {}
            /\ tbd[1].date = EarliestStart
            /\ \A i \in 1..Len(tbd) : tbd[i].weekEnd = tbd[i].date + 7
            /\ \A i \in 2..Len(tbd) :
                  tbd[i].date = tbd[i - 1].weekEnd /\ tbd[i].date > tbd[i - 1].date
            /\ Len(tbd) = Cardinality({k \in 0..LatestEnd :
                                          EarliestStart + 7 * k <= LatestEnd})
            /\ tbd[Len(tbd)].date <= LatestEnd
            /\ tbd[Len(tbd)].weekEnd > LatestEnd

\* a curve of two buckets for two activities that start on different days,
\* the later end lying inside the second bucket
TwoWeekCurveOfTwoActivities ==
    /\ curve.returned
    /\ Len(curve.value.timeBasedData) = 2
    /\ Cardinality(Spans) >= 2
    /\ LatestEnd < curve.value.timeBasedData[2].weekEnd - 1
    /\ \E sp \in Spans : sp.startDate > EarliestStart

\* the overlap ratio of a span in the bucket is above 0
PresentIn(sp, bucket) ==
    /\ sp.endDate > sp.startDate
    /\ Min(sp.endDate, bucket.weekEnd) > Max(sp.startDate, bucket.date)

\* C23: the activeActivities of every bucket are exactly the contributing
\* activities with an overlap ratio above 0 in the bucket.
ActiveActivitiesArePresent ==
    curve.returned =>
        \A b \in 1..Len(curve.value.timeBasedData) :
            LET bucket == curve.value.timeBasedData[b]
            IN  /\ \A i \in 1..Len(bucket.activeActivities) :
                      /\ bucket.activeActivities[i].overlapRatio.num > 0
                      /\ \E sp \in Spans :
                            SameSpan(sp, bucket.activeActivities[i])
                            /\ PresentIn(sp, bucket)
                /\ \A sp \in Spans :
                      PresentIn(sp, bucket) =>
                          \E i \in 1..Len(bucket.activeActivities) :
                              SameSpan(sp, bucket.activeActivities[i])

(***************************************************************************)
(* Table-start lines                                                       *)
(***************************************************************************)
\* C24: a table-start line makes its table the current one, with an empty
\* record sequence and an empty field list, also when the table was seen
\* before; the current table has rows only when a field list has come since
\* its table-start line; a data row that arrives while the field list is
\* empty adds nothing, and a data row that is stored goes to the current
\* table only, built from the names of the current field list.
TableStartResets ==
    /\ [](StartsWith(line, "%T") =>
            /\ currentTable = line.cells[1]
            /\ data[currentTable] = <<>>
            /\ currentFields = <<>>)
    /\ [](currentTable \in DOMAIN data /\ data[currentTable] # <<>>
            => currentFields # <<>>)
    /\ [][(nlines' = nlines + 1 /\ StartsWith(line', "%R")) =>
            /\ currentFields = <<>> => data' = data
            /\ \A tb \in DOMAIN data :
                  tb # currentTable => data'[tb] = data[tb]
            /\ data' # data =>
                  /\ Front(data'[currentTable]) = data[currentTable]
                  /\ DOMAIN Last(data'[currentTable]) \subseteq Range(currentFields)]_vars

\* a data row has arrived right after the start of a second table, before
\* any field list of that table
RowAfterSecondTableStart ==
    /\ StartsWith(line, "%R")
    /\ currentFields = <<>>
    /\ currentTable \in DOMAIN data
    /\ data[currentTable] = <<>>
    /\ nlines = 4
    /\ Cardinality(DOMAIN data) = 2


\* the model loadProject builds from a file whose text holds a project
ModelOf(file) == LoadParsed(NewApp, parseContent(NewReader, file.text))

\* C27: once every requested load has completed, the model the app holds
\* (currentReader, currentProject, allActivities, allAssignments) is that of
\* the file passed to the most recent loadProject call, when that file is
\* readable and holds a project, in whatever order the file reads resolved.
ModelIsOfLastRequestedFile ==
    (/\ loading = <<>>
     /\ lastFile # Null
     /\ lastFile.readable
     /\ Len(parseContent(NewReader, lastFile.text).projects) > 0)
    => /\ currentReader = ModelOf(lastFile).currentReader
       /\ currentProject = ModelOf(lastFile).currentProject
       /\ allActivities = ModelOf(lastFile).allActivities
       /\ allAssignments = ModelOf(lastFile).allAssignments


\* C25: buildHierarchy, with calculateWBSAggregates, filterEmptyWBS and
\* sortHierarchy, and flattenHierarchy return for every WBS table, one with
\* a node that is its own parent or ancestor included: initializeGantt never
\* catches the RangeError of a recursion that does not return, and the
\* hierarchy it has built can be flattened.
HierarchyTraversalsReturn ==
    /\ ~ganttError
    /\ ganttData # Null =>
          ~flattenHierarchy(ganttData, ganttData.rootItems, 1, <<>>, 1).overflow


\* the items below item in the hierarchy g
Descendants(g, item) ==
    Range(flattenHierarchy(g, g.items[item].children, 1, <<>>, 1).items)

\* the WBS items that are in the hierarchy
WbsPresent(g) == {i \in Range(allItems(g)) : g.items[i].isWBS}

\* C26: in the hierarchy buildHierarchy has returned no WBS item, at any
\* depth, has an empty children list, and every WBS item has an activity
\* among its descendants; building the hierarchy leaves the records of
\* currentReader.wbs as they were.
PrunedHierarchyHasNoEmptyWbs ==
    /\ [](ganttData # Null =>
            \A i \in WbsPresent(ganttData) :
                /\ ganttData.items[i].children # <<>>
                /\ \E j \in Descendants(ganttData, i) :
                      ~ganttData.items[j].isWBS)
    /\ [][ganttData' # ganttData => currentReader'.wbs = currentReader.wbs]_vars

\* a hierarchy has been built from a table of which a record was pruned,
\* and it holds a WBS item whose children are all WBS items
WbsPrunedAndWbsKept ==
    /\ ganttData # Null
    /\ \E i \in 1..Len(currentReader.wbs) :
          wbsItems(currentReader.wbs, currentReader.wbs[i].wbs_id)
              \notin Range(allItems(ganttData))
    /\ \E i \in WbsPresent(ganttData) :
          \A k \in 1..Len(ganttData.items[i].children) :
              ganttData.items[ganttData.items[i].children[k]].isWBS


\* the number of times item is in the flattened hierarchy
Appearances(g, item) ==
    Cardinality({k \in 1..Len(allItems(g)) : allItems(g)[k] = item})

\* C28: in the hierarchy buildHierarchy has returned every activity passed
\* in is exactly once in flattenHierarchy(ganttData): among the children of
\* the WBS item of its wbs_id when the table has a record with that id, and
\* at the root otherwise, whatever the parent links of the table.
ActivitiesAppearOnce ==
    ganttData # Null =>
        \A j \in 1..Len(allActivities) :
            LET item == Len(currentReader.wbs) + j
                wbsParent == wbsItems(currentReader.wbs,
                                      Get(allActivities[j], "wbs_id"))
            IN /\ Appearances(ganttData, item) = 1
               /\ IF wbsParent # 0
                  THEN /\ wbsParent \in Range(allItems(ganttData))
                       /\ item \in Range(ganttData.items[wbsParent].children)
                  ELSE item \in Range(ganttData.rootItems)


\* C29: in the hierarchy buildHierarchy has returned every item that has a
\* parent has the level of its parent plus one and every item without a
\* parent has level 0, in whatever order the table lists the WBS records.
LevelsFollowParents ==
    ganttData # Null =>
        \A i \in Range(allItems(ganttData)) :
            LET item == ganttData.items[i]
            IN IF item.parent # 0
               THEN item.level = ganttData.items[item.parent].level + 1
               ELSE item.level = 0


\* the children of item are in the list getFullVisibleItems returns
ChildrenListed(g, expanded, item) ==
    \A child \in Range(g.items[item].children) :
        child \in Range(getFullVisibleItems(g, expanded))

\* C30: toggleExpand(id) on an item that has children flips whether the
\* children of that item are listed by getFullVisibleItems, from the state
\* buildHierarchy has produced and after any sequence of expandAll,
\* collapseAll and toggleExpand.
ToggleExpandFlipsChildren ==
    [][\A id \in WbsIds :
          ToggleExpand(Str(id)) =>
              LET item == FindItem(ganttData, Str(id))
              IN ChildrenListed(ganttData', expandedItems', item)
                     # ChildrenListed(ganttData, expandedItems, item)]_vars

=============================================================================
